---------------------------- MODULE Spec2Model ----------------------------
(*************************************************************************)
(* A model of the role_aggr scraping core: the detail-task pool of       *)
(* scraper/common/processing.py, the result filter, the LLM request loop *)
(* of scraper/common/intelligent_parser.py and the store adapter of      *)
(* database/functions.py.                                                *)
(*************************************************************************)
EXTENDS Integers, Sequences, FiniteSets, Bags, TLC

(*************************************************************************)
(* Bounds of the model.                                                  *)
(*************************************************************************)
\* number of job summaries of the board (detail tasks)
NumJobs == 2
\* capacity of the detail-task semaphore.  config.py:5 sets 10; the pool
\* is modelled with the capacity as a parameter smaller than NumJobs so
\* that tasks really wait for a slot.
JOB_DETAIL_CONCURRENCY == 1
\* longest list handed to filter_job_data in the filter specification
MaxJobs == 3
\* requests after which the model stops observing one _make_llm_request
MaxRequests == 5
\* records per update_job_listings call
MaxBatch == 2
\* longest list of locations handed to parse_locations_batch
MaxLocations == 2
\* calls the callers of the parser make
MaxParseCalls == 2
\* job summaries of a crawl whose locations are enriched
MaxSummaries == 2
\* job boards of a fleet
MaxBoards == 2
\* pieces of a raw location text
MaxPieces == 3
\* pages of a board, and list items of a page
MaxPages == 2
MaxItems == 2
\* batches of job items an infinite-scroll list can deliver
MaxAvailable == 4

(*************************************************************************)
(* Program constants.                                                    *)
(*************************************************************************)
\* processing.py:132   attempts = 3
attempts == 3
\* intelligent_parser.py:145   max_retries: int = 3
max_retries == 3
\* browser.py:201   max_scroll_attempts=20
max_scroll_attempts == 20
\* browser.py:235   if scroll_attempts >= 5
StagnationThreshold == 5

Jobs == 1..NumJobs

None == "None"

(*************************************************************************)
(* Text.  A Python str is a tuple of one-character strings, so that      *)
(* str.lower() and the `in` substring test are computed, not assumed.    *)
(*************************************************************************)
LowerOf ==
    ("P" :> "p") @@ ("O" :> "o") @@ ("S" :> "s") @@ ("T" :> "t") @@
    ("E" :> "e") @@ ("D" :> "d") @@ ("A" :> "a") @@ ("Y" :> "y") @@
    ("G" :> "g") @@ ("R" :> "r") @@ ("L" :> "l") @@ ("C" :> "c") @@
    ("I" :> "i") @@ ("N" :> "n") @@ ("U" :> "u") @@ ("W" :> "w") @@
    ("K" :> "k")

\* str.lower()
Lower(s) == [i \in DOMAIN s |-> IF s[i] \in DOMAIN LowerOf THEN LowerOf[s[i]] ELSE s[i]]

\* needle in hay
Contains(hay, needle) ==
    \E i \in 0..(Len(hay) - Len(needle)) :
        SubSeq(hay, i + 1, i + Len(needle)) = needle

\* the literal "posted 30+ days ago" of processing.py:436
StalePhrase ==
    <<"p","o","s","t","e","d"," ","3","0","+"," ","d","a","y","s"," ","a","g","o">>

TextStaleTitle ==
    <<"P","o","s","t","e","d"," ","3","0","+"," ","D","a","y","s"," ","A","g","o">>
TextStaleUpper ==
    <<"P","O","S","T","E","D"," ","3","0","+"," ","D","A","Y","S"," ","A","G","O">>
TextStaleLower == StalePhrase
\* the phrase inside a longer text
TextStaleInside ==
    <<"R","e","p","o","s","t","e","d"," ","3","0","+"," ","d","a","y","s"," ","a","g","o","!">>
TextThreeDays ==
    <<"P","o","s","t","e","d"," ","3"," ","D","a","y","s"," ","A","g","o">>
\* "30 days ago" without the plus sign
TextThirtyDays ==
    <<"P","o","s","t","e","d"," ","3","0"," ","D","a","y","s"," ","A","g","o">>
TextToday == <<"P","o","s","t","e","d"," ","T","o","d","a","y">>
TextEmpty == <<>>

StaleTexts == {TextStaleTitle, TextStaleUpper, TextStaleLower, TextStaleInside}
FreshTexts == {TextThreeDays, TextThirtyDays, TextToday, TextEmpty}
DateTexts == StaleTexts \cup FreshTexts

(*************************************************************************)
(* filter_job_data (processing.py:421-445).                              *)
(*************************************************************************)
\* Variant: the date test without .lower().
IsStale_CaseSensitive(job) == Contains(job.date_posted_raw, StalePhrase)

\* processing.py:436: the date test of one record
IsStale(job) == Contains(Lower(job.date_posted_raw), StalePhrase)

\* Variant: the URL of a stale record is not remembered.
FilterVisit_StaleNotSeen(st, job) ==
    IF job.url \notin st.seen_urls
    THEN IF ~IsStale(job)
         THEN [filtered |-> Append(st.filtered, job),
               seen_urls |-> st.seen_urls \cup {job.url}]
         ELSE st
    ELSE st

\* one iteration of the loop of filter_job_data: st = [filtered, seen_urls]
FilterVisit(st, job) ==
    IF job.url \notin st.seen_urls
    THEN IF ~IsStale(job)
         THEN [filtered |-> Append(st.filtered, job),
               seen_urls |-> st.seen_urls \cup {job.url}]
         ELSE [filtered |-> st.filtered,
               seen_urls |-> st.seen_urls \cup {job.url}]
    ELSE st

RECURSIVE FilterLoop(_, _)
FilterLoop(st, jobs) ==
    IF jobs = <<>> THEN st
    ELSE FilterLoop(FilterVisit(st, Head(jobs)), Tail(jobs))

filter_job_data(job_data_list) ==
    FilterLoop([filtered |-> <<>>, seen_urls |-> {}], job_data_list).filtered


\* the sequences over S of length at most n
RECURSIVE SeqsUpTo(_, _)
\* the lists of at most n elements of S
SeqsUpTo(S, n) ==
    IF n = 0 THEN {<<>>}
    ELSE LET shorter == SeqsUpTo(S, n - 1)
         IN shorter \cup {Append(q, x) : q \in shorter, x \in S}

(*************************************************************************)
(* State.                                                                *)
(*************************************************************************)
VARIABLES
    \* --- the detail phase of one board (processing.py, main.py) ---
    job_summaries_full, \* main.py:117-122: the summary of each job
    scraperKind,       \* which Scraper implementation fetches the details
    timesOut,          \* the jobs whose detail page times out on every visit
    show_loading_bar,  \* as_completed collection (TRUE) or gather (FALSE)
    to_csv,            \* main.py:138
    sem,               \* value of asyncio.Semaphore(JOB_DETAIL_CONCURRENCY)
    task,              \* per job: the coroutine process_single_job
    phase,             \* position of scraper() around the detail phase
    all_job_data,      \* main.py:125, 134: the list of job records
    handed,            \* the batches passed to update_job_listings
    job_data_list,     \* the argument of the call of filter_job_data
    \* --- one call of _make_llm_request (intelligent_parser.py) ---
    api_key,           \* whether self.api_key is set
    llm_pc,            \* position of the call
    attempt,           \* intelligent_parser.py:160
    backoff,           \* intelligent_parser.py:161
    requests,          \* history: requests sent to the endpoint by the call
    response_text,     \* what the endpoint did on the last request
    llm_result,        \* the value returned
    \* --- the store (database/model.py, database/functions.py) ---
    db_listings,       \* committed rows of the table listings (a bag)
    db_companies,      \* committed names of the table companies
    writer,            \* the session holding SQLite's write lock, or 0
    session,           \* per caller: its call of update_job_listings
    db_faults,         \* whether a statement can fail for a reason other
                       \* than a constraint or the write lock
    batch,             \* the list a caller passes in two successive calls
    calls,             \* history: the calls of that caller so far
    stores,            \* history: the store at the start of each of them
    \* --- location enrichment (batch_processor.py, intelligent_parser.py) ---
    enabled,           \* BatchLocationProcessor.enabled (with its parser)
    endpoint,          \* what the LLM endpoint does to a request in this run
    cache,             \* IntelligentParser.cache
    location_cache,    \* BatchLocationProcessor.location_cache
    coro,              \* per caller: its call into the enrichment code
    batch_calls,       \* history: calls of _parse_locations_llm_batch
    single_calls,      \* history: calls of _parse_location_llm
    parse_calls,       \* history: calls made by the callers of the parser
    summaries,         \* the job summaries of the crawl
    prepared,          \* prepare_batch_cache has returned
    enhanced,          \* the records enhance_job_with_cached_data returned
    last,              \* the last call of the single caller of the parser
    \* --- pagination of one Workday board (platforms/workday/crawler.py) ---
    crawl_pc,          \* position of paginate_through_job_listings
    page_count,        \* crawler.py:84
    max_pages,         \* the argument; 0 is None
    all_job_summaries, \* crawler.py:83
    crawl_error,       \* the except clause that ran (137-140), or "none"
    pages,             \* history: the list items of each page extracted
    next_button,       \* history: what navigate_to_next_page found last
    \* --- scroll_to_load_all_jobs (common/browser.py) and its caller ---
    scroll_pc,         \* position of the call and of its caller
    scroll_caller,     \* the call site: "browser" (browser.py:148-151) or
                       \* "crawler" (crawler.py:128)
    page_faults,       \* whether a Playwright call with valid arguments
                       \* can time out or raise in this run
    available,         \* items the list stabilises at
    loaded,            \* items in the DOM
    job_list_items_count, \* browser.py:205, 214
    scroll_attempts,   \* browser.py:206
    scroll_result,     \* the value returned: True, False or None
    iterations,        \* history: iterations of the while loop (211)
    last_growth,       \* history: the last iteration that saw growth
    extracted,         \* <<n>>: the caller extracted n summaries afterwards
    \* --- run_scraper (scripts/scraper.py) and scraper() (scraper/main.py) ---
    fleet_entry,       \* the function called: "run_scraper" or "scraper"
    boards,            \* the platform of each job board, in crawl order
    current,           \* the board of the current iteration (0: none yet)
    fleet_pc,          \* "running", "finished", or "raised" when an
                       \* exception left the function called
    board_pc,          \* position of scraper() on the current board
    all_data,          \* main.py: all_job_data of the current board
    io,                \* history: <<board, kind>> for the I/O performed
    board_outcome,     \* history, per board: how its iteration ended and
                       \* the error scraper() logged
    \* --- parse_location (common/utils.py, platforms/workday/parser.py) ---
    loc_fn,            \* the function applied: "common" or "workday"
    loc_raw,           \* the raw location text
    loc_parsed         \* history: the result of each application so far

detailVars ==
    <<job_summaries_full, scraperKind, timesOut, show_loading_bar, to_csv, sem, task, phase,
      all_job_data, handed, job_data_list>>

llmVars ==
    <<api_key, llm_pc, attempt, backoff, requests, response_text, llm_result>>

repeatVars == <<db_faults, batch>>

storeVars == <<db_listings, db_companies, writer, session, repeatVars, calls, stores>>

parserVars ==
    <<enabled, endpoint, cache, location_cache, coro, batch_calls,
      single_calls, parse_calls, summaries, prepared, enhanced, last>>

crawlVars ==
    <<crawl_pc, page_count, max_pages, all_job_summaries, crawl_error, pages,
      next_button>>

scrollVars ==
    <<scroll_pc, scroll_caller, page_faults, available, loaded,
      job_list_items_count, scroll_attempts, scroll_result, iterations,
      last_growth, extracted>>

locVars == <<loc_fn, loc_raw, loc_parsed>>

fleetVars ==
    <<fleet_entry, boards, current, fleet_pc, board_pc, all_data, io,
      board_outcome>>

vars ==
    <<detailVars, llmVars, storeVars, parserVars, crawlVars, scrollVars,
      fleetVars, locVars>>

\* what the operations of one part of the program leave alone
notDetail ==
    <<llmVars, storeVars, parserVars, crawlVars, scrollVars, fleetVars, locVars>>
notLlm ==
    <<detailVars, storeVars, parserVars, crawlVars, scrollVars, fleetVars, locVars>>
notStore ==
    <<detailVars, llmVars, parserVars, crawlVars, scrollVars, fleetVars, locVars>>
notParser ==
    <<detailVars, llmVars, storeVars, crawlVars, scrollVars, fleetVars, locVars>>
notCrawl ==
    <<detailVars, llmVars, storeVars, parserVars, scrollVars, fleetVars, locVars>>
notScroll ==
    <<detailVars, llmVars, storeVars, parserVars, crawlVars, fleetVars, locVars>>
notFleet ==
    <<detailVars, llmVars, storeVars, parserVars, crawlVars, scrollVars, locVars>>
notLoc ==
    <<detailVars, llmVars, storeVars, parserVars, crawlVars, scrollVars, fleetVars>>

(*************************************************************************)
(* The environment of a detail task.                                     *)
(*************************************************************************)
\* Exceptions a Playwright call can raise, by the handler that takes them:
\*   timeout        PlaywrightTimeoutError                (processing.py:163)
\*   target_closed  PlaywrightError "Target page, context or browser has
\*                  been closed" / TargetClosedError      (processing.py:173)
\*   playwright     any other PlaywrightError             (processing.py:170)
\*   generic        any other Exception                   (processing.py:181)
Errors == {"timeout", "target_closed", "playwright", "generic"}
Outcomes == {"ok"} \cup Errors
\* page.close / context.close either return or raise an error that the
\* finally block catches (processing.py:192-195, 199-202)
CloseOutcomes == {"ok", "playwright", "generic"}

ScraperKinds == {"workday", "contract"}

\* the summary of job t as main.py:119-122 hands it to the detail phase
Summary(t) == [detail_url |-> t, date_posted_raw |-> TextToday]

\* details.py:27 the placeholder, details.py:29-46 the extracted values
Details(t, pageOutcome) ==
    [url |-> t, description |-> IF pageOutcome = "ok" THEN "text" ELSE "N/A"]

\* WorkdayScraper.fetch_job_details (crawler.py:167-184) over
\* fetch_job_details (details.py:27-57): both catch every Exception and
\* return the placeholder, so the call returns whatever the page does.
WorkdayFetch(t, pageOutcome) ==
    [raised |-> "none", data |-> Details(t, pageOutcome)]

\* A Scraper that uses the licence of the abstract contract (base.py:93-95)
\* to raise on a failed page.
ContractFetch(t, pageOutcome) ==
    IF pageOutcome = "ok"
    THEN [raised |-> "none", data |-> Details(t, pageOutcome)]
    ELSE [raised |-> pageOutcome, data |-> Details(t, pageOutcome)]

ScraperFetch(kind, t, pageOutcome) ==
    IF kind = "workday" THEN WorkdayFetch(t, pageOutcome)
    ELSE ContractFetch(t, pageOutcome)

\* processing.py:159-160   {**job_summary, **detail_data} + company_name
Merge(summary, detail) ==
    [detail_url |-> summary.detail_url,
     date_posted_raw |-> summary.date_posted_raw,
     url |-> detail.url,
     description |-> detail.description]

(*************************************************************************)
(* process_single_job (processing.py:93-204), one coroutine per job.     *)
(*                                                                       *)
(* pc       the await the coroutine is suspended at, "queued" before the *)
(*          semaphore is acquired and "done" after it is released        *)
(* attempt  the loop variable of processing.py:133                       *)
(* context, page   the local variables: None, or the state of the object *)
(*          they refer to ("open", or "closed" once close was called)    *)
(* exc      the exception raised in the current attempt: "none",         *)
(*          "error" (a timeout, a Playwright error that is not           *)
(*          target-closed, or any other Exception), "target_closed" or   *)
(*          "CancelledError"                                             *)
(* after    what follows the finally block: "continue" (the next         *)
(*          iteration), "return", "return_none", or "raise" for an       *)
(*          exception that propagates; it is kept when the task is done  *)
(* retval   the value returned: <<>> for None, <<r>> for the record r    *)
(*************************************************************************)
InitTask ==
    [pc |-> "queued", attempt |-> 0, context |-> None, page |-> None,
     exc |-> "none", after |-> "none", retval |-> <<>>]

\* The coroutine is over.  Its locals are gone; a page or context object
\* that was never closed stays open.
Finish(tk) ==
    [tk EXCEPT !.pc = "done",
               !.retval = IF tk.after = "return" THEN tk.retval ELSE <<>>,
               !.context = IF tk.context = "open" THEN "open" ELSE None,
               !.page = IF tk.page = "open" THEN "open" ELSE None]

\* leaving the finally block (processing.py:188-202): the next iteration of
\* `for attempt in range(attempts)` (133), the `return None` after the loop
\* (204), or the pending return or exception, which leaves the
\* `async with semaphore` block (124)
ExitTask(tk) ==
    IF tk.after = "continue"
    THEN IF tk.attempt + 1 < attempts
         THEN [tk EXCEPT !.pc = "new_context", !.attempt = tk.attempt + 1,
                         !.after = "none", !.exc = "none"]
         ELSE Finish([tk EXCEPT !.after = "return_none"])
    ELSE Finish(tk)

\* processing.py:196   if context:
AfterPageClose(tk) ==
    IF tk.context # None THEN [tk EXCEPT !.pc = "context_close"]
    ELSE ExitTask(tk)

\* processing.py:188-189   finally: if page:
EnterFinally(tk) ==
    IF tk.page # None THEN [tk EXCEPT !.pc = "page_close"]
    ELSE AfterPageClose(tk)

\* the class of an exception of the try body other than target-closed
ErrorClass(e) ==
    IF e \in {"timeout", "playwright", "generic"} THEN "error" ELSE e

\* Variant: the handlers give up one attempt early.
HandleExc_GivesUpEarly(tk, e) ==
    IF e = "CancelledError"
    THEN EnterFinally([tk EXCEPT !.exc = e, !.after = "raise"])
    ELSE IF e = "target_closed"
    THEN EnterFinally([tk EXCEPT !.exc = e, !.after = "return_none"])
    ELSE IF tk.attempt >= attempts - 2
    THEN EnterFinally([tk EXCEPT !.exc = ErrorClass(e), !.after = "return_none"])
    ELSE [tk EXCEPT !.exc = ErrorClass(e), !.pc = "backoff"]

\* Variant: without the target-closed test of processing.py:173, so that the
\* error is retried like any other PlaywrightError.
HandleExc_NoTargetClosedTest(tk, e) ==
    IF e = "CancelledError"
    THEN EnterFinally([tk EXCEPT !.exc = e, !.after = "raise"])
    ELSE IF tk.attempt = attempts - 1
    THEN EnterFinally([tk EXCEPT !.exc = e, !.after = "return_none"])
    ELSE [tk EXCEPT !.exc = e, !.pc = "backoff"]

\* the except clauses of processing.py:163-186 for an exception e raised in
\* the try body; a CancelledError matches none of them
HandleExc(tk, e) ==
    IF e = "CancelledError"
    THEN EnterFinally([tk EXCEPT !.exc = e, !.after = "raise"])
    ELSE IF e = "target_closed"
    THEN EnterFinally([tk EXCEPT !.exc = e, !.after = "return_none"])
    ELSE IF tk.attempt = attempts - 1
    THEN EnterFinally([tk EXCEPT !.exc = ErrorClass(e), !.after = "return_none"])
    ELSE [tk EXCEPT !.exc = ErrorClass(e), !.pc = "backoff"]

\* the semaphore is released when the coroutine leaves the with block
Released(old, new) ==
    IF old.pc # "done" /\ old.pc # "queued" /\ new.pc = "done" THEN 1 ELSE 0

\* as_completed mode (processing.py:264-271): a finished task's record is
\* appended when it completes; gather mode collects at the end
Collected(list, old, new) ==
    IF show_loading_bar /\ old.pc # "done" /\ new.pc = "done"
       /\ new.after # "raise"
    THEN list \o new.retval
    ELSE list

\* a step of task t from its record to `new`
TaskStep(t, new) ==
    /\ task' = [task EXCEPT ![t] = new]
    /\ sem' = sem + Released(task[t], new)
    /\ all_job_data' = Collected(all_job_data, task[t], new)
    /\ UNCHANGED <<job_summaries_full, scraperKind, timesOut, show_loading_bar, to_csv, phase, handed, job_data_list, notDetail>>

\* main.py:110-131   process_job_details_parallel has been called: the
\* coroutines of processing.py:250-256 exist
TasksCreated == phase \notin {"paginating", "failed"}

\* Variant: the task starts without waiting for the semaphore.
Acquire_NoSemaphore(t) ==
    /\ TasksCreated
    /\ task[t].pc = "queued"
    /\ task' = [task EXCEPT ![t] = [@ EXCEPT !.pc = "new_context"]]
    /\ sem' = sem - 1
    /\ UNCHANGED <<job_summaries_full, scraperKind, timesOut, show_loading_bar, to_csv, phase,
                   all_job_data, handed, job_data_list, notDetail>>

\* processing.py:124   async with semaphore
Acquire(t) ==
    /\ TasksCreated
    /\ task[t].pc = "queued"
    /\ sem > 0
    /\ task' = [task EXCEPT ![t] = [@ EXCEPT !.pc = "new_context"]]
    /\ sem' = sem - 1
    /\ UNCHANGED <<job_summaries_full, scraperKind, timesOut, show_loading_bar, to_csv, phase,
                   all_job_data, handed, job_data_list, notDetail>>

\* processing.py:136-147   context = await browser.new_context(...)
NewContext(t) ==
    /\ task[t].pc = "new_context"
    /\ \E new \in {IF o = "ok"
                    THEN [task[t] EXCEPT !.context = "open",
                                         !.pc = "new_page"]
                    ELSE HandleExc(task[t], o) : o \in Outcomes} :
         TaskStep(t, new)

\* processing.py:148-149   await context.route(...); page = await context.new_page()
NewPage(t) ==
    /\ task[t].pc = "new_page"
    /\ \E new \in {IF o = "ok"
                    THEN [task[t] EXCEPT !.page = "open", !.pc = "fetch"]
                    ELSE HandleExc(task[t], o) : o \in Outcomes} :
         TaskStep(t, new)

\* what the detail page of job t can do on one visit
PageOutcomes(t) == IF t \in timesOut THEN {"timeout"} ELSE Outcomes

\* processing.py:152-161   detail_data = await scraper.fetch_job_details(...);
\* merge; return full_job_info
FetchJobDetails(t) ==
    /\ task[t].pc = "fetch"
    /\ \E new \in
            {LET r == ScraperFetch(scraperKind,
                                   job_summaries_full[t].detail_url, o)
             IN IF r.raised = "none"
                THEN EnterFinally(
                       [task[t] EXCEPT !.retval = <<Merge(job_summaries_full[t], r.data)>>,
                                       !.after = "return"])
                ELSE HandleExc(task[t], r.raised) : o \in PageOutcomes(t)} :
         TaskStep(t, new)

\* processing.py:168, 179, 186   await asyncio.sleep(2 * (attempt + 1)),
\* inside the except clause: the finally block runs when the sleep is over
Backoff(t) ==
    /\ task[t].pc = "backoff"
    /\ TaskStep(t, EnterFinally([task[t] EXCEPT !.after = "continue"]))

\* processing.py:189-195   await page.close(), errors caught
PageClose(t) ==
    /\ task[t].pc = "page_close"
    /\ \E new \in {AfterPageClose([task[t] EXCEPT !.page = "closed"]) :
                       o \in CloseOutcomes} :
         TaskStep(t, new)

\* processing.py:196-202   await context.close(), errors caught
ContextClose(t) ==
    /\ task[t].pc = "context_close"
    /\ \E new \in {ExitTask([task[t] EXCEPT !.context = "closed"]) :
                       o \in CloseOutcomes} :
         TaskStep(t, new)

\* A CancelledError delivered to a coroutine at the await it is suspended
\* at.  It is no Exception (processing.py:163-186, 192-195, 199-202 do not
\* catch it): in the try body and in the backoff sleep the finally block
\* still runs; at page.close() it leaves the finally block, so that
\* context.close() is not called; at context.close() the close has been
\* called.
CancelAt(tk) ==
    IF tk.pc = "done" THEN tk
    ELSE IF tk.pc = "queued"
    THEN Finish([tk EXCEPT !.exc = "CancelledError", !.after = "raise"])
    ELSE IF tk.pc \in {"new_context", "new_page", "fetch", "backoff"}
    THEN EnterFinally([tk EXCEPT !.exc = "CancelledError", !.after = "raise"])
    ELSE IF tk.pc = "page_close"
    THEN ExitTask([tk EXCEPT !.page = "closed", !.exc = "CancelledError",
                             !.after = "raise"])
    ELSE ExitTask([tk EXCEPT !.context = "closed", !.exc = "CancelledError",
                             !.after = "raise"])

RECURSIVE SumReleased(_, _)
SumReleased(new, n) ==
    IF n = 0 THEN 0 ELSE SumReleased(new, n - 1) + Released(task[n], new[n])

\* cancellation of scraper() while the detail phase runs: gather cancels
\* every child (processing.py:278), each of which gets the CancelledError at
\* the await it is suspended at
CancelAll ==
    /\ phase = "fetching"
    /\ \E t \in Jobs : task[t].pc # "done"
    /\ LET new == [t \in Jobs |-> CancelAt(task[t])]
       IN /\ task' = new
          /\ sem' = sem + SumReleased(new, NumJobs)
    /\ phase' = "cancelled"
    /\ UNCHANGED <<job_summaries_full, scraperKind, timesOut, show_loading_bar, to_csv, all_job_data, handed, job_data_list, notDetail>>

RECURSIVE GatherResults_StopAtFailure(_)
\* Variant: the results after the first task that failed are lost.
GatherResults_StopAtFailure(n) ==
    IF n = 0 THEN <<>>
    ELSE IF \E m \in 1..n : task[m].after # "return" THEN <<>>
    ELSE GatherResults_StopAtFailure(n - 1) \o task[n].retval

RECURSIVE GatherResults(_)
\* processing.py:278-284   the results of gather, in task order, without
\* the None and the exception entries
GatherResults(n) ==
    IF n = 0 THEN <<>>
    ELSE GatherResults(n - 1) \o
         (IF task[n].after # "raise" THEN task[n].retval ELSE <<>>)

\* Variant: the wait ends with the first task that completes.
Awaited_FirstCompleted == \E t \in Jobs : task[t].pc = "done"

\* processing.py:264-269, 278   the as_completed loop and gather end when
\* every task has completed
Awaited == \A t \in Jobs : task[t].pc = "done"

\* processing.py:262-287   process_job_details_parallel returns
Collect ==
    /\ phase = "fetching"
    /\ Awaited
    /\ all_job_data' = IF show_loading_bar THEN all_job_data
                       ELSE GatherResults(NumJobs)
    /\ phase' = "collected"
    /\ UNCHANGED <<job_summaries_full, scraperKind, timesOut, show_loading_bar, to_csv, sem, task, handed, job_data_list, notDetail>>

\* main.py:108-131, 146-148   extract_job_summaries returns and
\* process_job_details_parallel is called, or it raises and scraper()
\* goes to its finally block with an empty result
ExtractReturns ==
    /\ phase = "paginating"
    /\ \E ok \in BOOLEAN : phase' = IF ok THEN "fetching" ELSE "failed"
    /\ UNCHANGED <<job_summaries_full, scraperKind, timesOut, show_loading_bar,
                   to_csv, sem, task, all_job_data, handed, job_data_list,
                   notDetail>>

\* main.py:134-144 with save_job_listing_data_to_db (main.py:44-59): filter,
\* then the store adapter is called when the list is not empty
FilterAndSave ==
    /\ phase = "collected"
    /\ job_data_list' = all_job_data
    /\ all_job_data' = filter_job_data(all_job_data)
    /\ handed' = IF ~to_csv /\ all_job_data' # <<>>
                 THEN Append(handed, all_job_data')
                 ELSE handed
    /\ phase' = "saved"
    /\ UNCHANGED <<job_summaries_full, scraperKind, timesOut, show_loading_bar, to_csv, sem, task,
                   notDetail>>

(*************************************************************************)
(* IntelligentParser._make_llm_request (intelligent_parser.py:145-221).  *)
(*************************************************************************)
\* What the endpoint can do on one request:
\*   exception     the client raises (network, timeout, API error)
\*   empty         the content is empty: ValueError (183-185)
\*   malformed     the content is not JSON: json.JSONDecodeError (191, 211)
\*   dict_missing  a JSON object that lacks a required key (204-209)
\*   list_invalid  a JSON list with an item that lacks a key (194-201)
\*   other_json    valid JSON that is neither a list nor an object (210)
\*   dict_ok, list_ok   a valid single or batch response
Behaviours ==
    {"exception", "empty", "malformed", "dict_missing", "list_invalid",
     "other_json", "dict_ok", "list_ok"}

\* the requests whose handling ends in `except Exception` (213-218)
RaisesException(b) == b \in {"exception", "empty"}

\* the requests whose parsed response is returned (198, 206)
ReturnsParsed(b) == b \in {"dict_ok", "list_ok"}

\* intelligent_parser.py:158, 221
UnknownText == <<"U","n","k","n","o","w","n">>

UnknownFallback ==
    [city |-> UnknownText, country |-> "Unknown", region |-> "Unknown",
     confidence |-> <<0>>]

\* no call of _make_llm_request is in progress
LlmIdle ==
    /\ api_key = FALSE
    /\ llm_pc = "idle"
    /\ attempt = 0
    /\ backoff = 1
    /\ requests = 0
    /\ response_text = "none"
    /\ llm_result = <<>>

\* intelligent_parser.py:156-158   if not self.api_key: return fallback
NoApiKey ==
    /\ llm_pc = "start"
    /\ ~api_key
    /\ llm_result' = <<UnknownFallback>>
    /\ llm_pc' = "done"
    /\ UNCHANGED <<api_key, attempt, backoff, requests, response_text,
                   notLlm>>

\* intelligent_parser.py:160-161   attempt = 0; backoff = 1
EnterLoop ==
    /\ llm_pc = "start"
    /\ api_key
    /\ attempt' = 0
    /\ backoff' = 1
    /\ llm_pc' = "loop"
    /\ UNCHANGED <<api_key, requests, response_text, llm_result,
                   notLlm>>

\* intelligent_parser.py:162-218   one iteration of the while loop up to the
\* sleep: the request, the checks of the response, the except clauses
Request ==
    /\ llm_pc = "loop"
    /\ attempt < max_retries
    /\ requests < MaxRequests
    /\ \E b \in Behaviours :
        /\ response_text' = b
        /\ requests' = requests + 1
        /\ IF ReturnsParsed(b)
           THEN /\ llm_result' = <<b>>
                /\ llm_pc' = "done"
                /\ UNCHANGED attempt
           ELSE IF RaisesException(b)
           THEN /\ IF attempt < max_retries - 1
                   THEN llm_pc' = "sleep" /\ UNCHANGED attempt
                   ELSE llm_pc' = "loop" /\ attempt' = attempt + 1
                /\ UNCHANGED llm_result
           ELSE UNCHANGED <<llm_pc, attempt, llm_result>>
    /\ UNCHANGED <<api_key, backoff, notLlm>>

\* intelligent_parser.py:215-218   await asyncio.sleep(backoff);
\* backoff *= 2; attempt += 1
Sleep ==
    /\ llm_pc = "sleep"
    /\ backoff' = backoff * 2
    /\ attempt' = attempt + 1
    /\ llm_pc' = "loop"
    /\ UNCHANGED <<api_key, requests, response_text, llm_result,
                   notLlm>>

\* intelligent_parser.py:162, 220-221   the loop ends; return the fallback
MaxRetriesExceeded ==
    /\ llm_pc = "loop"
    /\ attempt >= max_retries
    /\ llm_result' = <<UnknownFallback>>
    /\ llm_pc' = "done"
    /\ UNCHANGED <<api_key, attempt, backoff, requests, response_text,
                   notLlm>>

(*************************************************************************)
(* Location enrichment: IntelligentParser (intelligent_parser.py) and    *)
(* the batch processors built on it (batch_processor.py).                *)
(*                                                                       *)
(* A location is a str (a tuple of characters).  A parsed location is a  *)
(* dict, modelled as a record; its confidence is <<n>> for the JSON      *)
(* number n/10 and <<>> for a JSON value that is not a number.           *)
(*************************************************************************)
IsSpace(c) == c = " "

RECURSIVE LStrip(_)
LStrip(s) == IF s # <<>> /\ IsSpace(Head(s)) THEN LStrip(Tail(s)) ELSE s

RECURSIVE RStrip(_)
RStrip(s) ==
    IF s # <<>> /\ IsSpace(s[Len(s)]) THEN RStrip(SubSeq(s, 1, Len(s) - 1)) ELSE s

\* str.strip()
Strip(s) == RStrip(LStrip(s))

LocationsPrefix == <<"l","o","c","a","t","i","o","n","s">>

\* utils.py:21-38   re.sub(r'^locations\s*', '', s, IGNORECASE).strip()
parse_location(location_str_raw) ==
    LET n == Len(LocationsPrefix) IN
    IF location_str_raw = <<>> THEN <<>>
    ELSE IF /\ Len(location_str_raw) >= n
            /\ Lower(SubSeq(location_str_raw, 1, n)) = LocationsPrefix
         THEN Strip(SubSeq(location_str_raw, n + 1, Len(location_str_raw)))
         ELSE Strip(location_str_raw)

LocOslo == <<"O","s","l","o">>
LocOsloLower == <<"o","s","l","o">>
LocOsloSpace == <<"O","s","l","o"," ">>
LocParis == <<"P","a","r","i","s">>
LocPrefixed == <<"L","o","c","a","t","i","o","n","s"," ","O","s","l","o">>
LocBlank == <<" ">>
LocEmpty == <<>>
LocNA == <<"N","/","A">>

\* the strings a location field can hold
LocStrings ==
    {LocOslo, LocOsloLower, LocOsloSpace, LocParis, LocPrefixed, LocBlank,
     LocEmpty, LocNA}

\* intelligent_parser.py:305-315   f"loc::{location.lower().strip()}"
_get_cache_key(location) == <<"loc::">> \o Strip(Lower(location))

RequiredKeys == {"city", "country", "region", "confidence"}

\* all(key in d for key in ["city", "country", "region", "confidence"])
HasRequiredKeys(d) == RequiredKeys \subseteq DOMAIN d

\* intelligent_parser.py:317-339
_parse_location_fallback(location_raw) ==
    [city |-> parse_location(location_raw), country |-> "Unknown",
     region |-> "Unknown", confidence |-> <<1>>]

\* ---- what the endpoint can answer --------------------------------------
HighOslo ==
    [city |-> LocOslo, country |-> "Norway", region |-> "Europe",
     confidence |-> <<9>>]
HighParis ==
    [city |-> LocParis, country |-> "France", region |-> "Europe",
     confidence |-> <<9>>]
LowItem ==
    [city |-> LocOslo, country |-> "Norway", region |-> "Europe",
     confidence |-> <<2>>]
\* "confidence": null, or a string
NullItem ==
    [city |-> LocOslo, country |-> "Norway", region |-> "Europe",
     confidence |-> <<>>]
\* an item that lacks region and confidence
IncompleteItem == [city |-> LocOslo, country |-> "Norway"]
\* an item that is not a JSON object
NotADict == [nondict |-> TRUE]

IsDict(x) == "nondict" \notin DOMAIN x

\* the items that pass the validation of _make_llm_request (194-206)
ValidItems == {HighOslo, HighParis, LowItem, NullItem}
AnyItems == ValidItems \cup {IncompleteItem, NotADict}

\* a parsed JSON value: an object or a list
DictReply(d) == [type |-> "dict", value |-> d]
ListReply(items) == [type |-> "list", items |-> items]

\* a valid object that also carries a "locations" list
WithLocations(items) ==
    [city |-> LocOslo, country |-> "Norway", region |-> "Europe",
     confidence |-> <<9>>, locations |-> items]

\* the values _make_llm_request returns for a request about n locations
\* that the endpoint answers with behaviour b (198, 206): an object, an
\* object with a "locations" list of up to n items, or a list of up to
\* n + 1 items
Replies(b, n) ==
    IF b = "dict_ok"
    THEN {DictReply(d) : d \in ValidItems}
         \cup {DictReply(WithLocations(s)) : s \in SeqsUpTo(AnyItems, n)}
    ELSE IF b = "list_ok"
    THEN {ListReply(s) : s \in SeqsUpTo(ValidItems, n + 1)}
    ELSE {}

\* intelligent_parser.py:158, 221   the value returned without an answer
NoReply == DictReply(UnknownFallback)

\* result.get("confidence", 0.0) is a number
IsNumber(c) == c # <<>>

\* intelligent_parser.py:223-249   _parse_location_llm, after the request
_parse_location_llm(response) ==
    IF response.type = "dict" /\ HasRequiredKeys(response.value)
    THEN response.value
    ELSE UnknownFallback

\* parse_location_single without the test of the threshold at 369
SingleResult_NoThreshold(location, response) ==
    LET parsed == _parse_location_llm(response) IN
    IF IsNumber(parsed.confidence)
    THEN parsed
    ELSE _parse_location_fallback(location)

\* intelligent_parser.py:355-381   parse_location_single, after the LLM
\* attempt: the threshold of 0.5, the fallback, and the fallback of the
\* except clause when the comparison raises TypeError
SingleResult(location, response) ==
    LET parsed == _parse_location_llm(response) IN
    IF IsNumber(parsed.confidence) /\ parsed.confidence[1] >= 5
    THEN parsed
    ELSE _parse_location_fallback(location)

\* intelligent_parser.py:274-281   the list taken from the response
ResponseItems(response) ==
    IF response.type = "list" THEN response.items
    ELSE IF "locations" \in DOMAIN response.value THEN response.value.locations
    ELSE IF "city" \in DOMAIN response.value THEN <<response.value>>
    ELSE <<>>

\* intelligent_parser.py:283-298   validate and pad to the input length
ValidatedResults(locations, results) ==
    [i \in 1..Len(locations) |->
        IF i <= Len(results) /\ IsDict(results[i])
        THEN IF HasRequiredKeys(results[i]) THEN results[i] ELSE UnknownFallback
        ELSE UnknownFallback]

\* intelligent_parser.py:251-303
_parse_locations_llm_batch(locations, response) ==
    ValidatedResults(locations, ResponseItems(response))

\* ---- parse_locations_batch (intelligent_parser.py:383-452) -------------
\* 400-409   cache_results: the cached value of every index that hits
CacheResults(locations, c) ==
    [i \in {j \in 1..Len(locations) : _get_cache_key(locations[j]) \in DOMAIN c}
        |-> c[_get_cache_key(locations[i])]]

\* 401-412   uncached_locations, in input order
UncachedLocations(locations, c) ==
    SelectSeq(locations, LAMBDA l : _get_cache_key(l) \notin DOMAIN c)

\* 414-437   the list llm_results after the threshold loop; a confidence
\* that is not a number raises TypeError in the loop, and the except
\* clause replaces every result by the fallback
LlmResults(uncached_locations, response) ==
    LET v == _parse_locations_llm_batch(uncached_locations, response)
        n == Len(uncached_locations)
    IN  IF \E i \in 1..n : ~IsNumber(v[i].confidence)
        THEN [i \in 1..n |-> _parse_location_fallback(uncached_locations[i])]
        ELSE [i \in 1..n |->
                IF v[i].confidence[1] < 5
                THEN _parse_location_fallback(uncached_locations[i])
                ELSE v[i]]

\* 427-437   self.cache[cache_key] = llm_results[i], in list order
RECURSIVE WriteAll(_, _, _, _)
WriteAll(c, locations, results, i) ==
    IF i > Len(locations) THEN c
    ELSE WriteAll((_get_cache_key(locations[i]) :> results[i]) @@ c,
                  locations, results, i + 1)

\* the variable llm_index of 442 when the loop of 444 reaches index i
LlmIndex(cache_results, i) ==
    Cardinality({j \in 1..(i - 1) : j \notin DOMAIN cache_results}) + 1

FinalResults_IndexNotAdvanced(n, cache_results, llm_results) ==
    [i \in 1..n |->
        IF i \in DOMAIN cache_results THEN cache_results[i] ELSE llm_results[1]]

\* 440-449   combine cached and new results in the original order
FinalResults(n, cache_results, llm_results) ==
    [i \in 1..n |->
        IF i \in DOMAIN cache_results THEN cache_results[i]
        ELSE llm_results[LlmIndex(cache_results, i)]]

\* ---- the batch processors (batch_processor.py) ------------------------
\* dict.get(key) of a job record; None and "" are both <<>>
Get(job, key) == IF key \in DOMAIN job THEN job[key] ELSE <<>>

\* a or b
Or(a, b) == IF a # <<>> THEN a ELSE b

\* the locations collected when only the key "location" is read
UniqueLocations_LocationKeyOnly(job_summaries) ==
    {Strip(Get(job_summaries[i], "location")) : i \in
        {j \in 1..Len(job_summaries) :
            /\ Get(job_summaries[j], "location") # <<>>
            /\ Strip(Get(job_summaries[j], "location")) # <<>>
            /\ Get(job_summaries[j], "location") # LocNA}}

\* batch_processor.py:64-73   the locations of the summaries that are
\* collected, stripped
UniqueLocations(job_summaries) ==
    LET location(job) ==
            Or(Get(job, "location_raw"),
               Or(Get(job, "location"), Get(job, "location_parsed")))
    IN  {Strip(location(job_summaries[i])) : i \in
            {j \in 1..Len(job_summaries) :
                /\ location(job_summaries[j]) # <<>>
                /\ Strip(location(job_summaries[j])) # <<>>
                /\ location(job_summaries[j]) # LocNA}}

\* batch_processor.py:75   list(unique_locations): a set has no order
Orderings(S) ==
    {q \in SeqsUpTo(S, Cardinality(S)) :
        Len(q) = Cardinality(S) /\ {q[i] : i \in 1..Len(q)} = S}

\* batch_processor.py:240-244
EnhanceLocation(job_data) ==
    Or(Get(job_data, "location_raw"), Get(job_data, "location"))

\* job_data["location_parsed_intelligent"] = parsed
WithParsed(job_data, parsed) ==
    [k \in DOMAIN job_data \cup {"location_parsed_intelligent"} |->
        IF k = "location_parsed_intelligent" THEN parsed ELSE job_data[k]]

\* batch_processor.py:165-178   the basic parsing of get_location_data
BasicParsing(location_raw) ==
    [city |-> parse_location(location_raw), country |-> "Unknown",
     region |-> "Unknown", confidence |-> <<1>>]

\* ---- the calls in progress ---------------------------------------------
Callers == {1, 2}

\* coro[c]:
\*   pc             "idle", or "request": awaiting the answer of the
\*                  endpoint in _make_llm_request (170)
\*   op             the function the caller called
\*   arg            <<its argument>>
\*   locations      the locations sent to the LLM
\*   cache_results  parse_locations_batch: the dict of 400
\*   attempt        _make_llm_request: the variable of 160
IdleCoro ==
    [pc |-> "idle", op |-> "none", arg |-> <<>>, locations |-> <<>>,
     cache_results |-> <<>>, attempt |-> 0]

\* no call into the enrichment code is in progress, nothing is cached
ParserIdle ==
    /\ enabled = FALSE
    /\ endpoint = {}
    /\ cache = <<>>
    /\ location_cache = <<>>
    /\ coro = [c \in Callers |-> IdleCoro]
    /\ batch_calls = 0
    /\ single_calls = 0
    /\ parse_calls = 0
    /\ summaries = <<>>
    /\ prepared = FALSE
    /\ enhanced = <<>>
    /\ last = <<>>

\* the state of the enrichment code
Enrichment ==
    [cache |-> cache, location_cache |-> location_cache,
     prepared |-> prepared, enhanced |-> enhanced]

\* intelligent_parser.py:369-381   parse_location_single from the answer
\* of the LLM on: the result, cached under the key of the location
SingleDone(location, response, st) ==
    LET result == SingleResult(location, response) IN
    [result |-> result,
     st |-> [st EXCEPT !.cache = (_get_cache_key(location) :> result) @@ @]]

\* intelligent_parser.py:419-452   parse_locations_batch from the answer
\* of the LLM on
BatchDone(locations, cache_results, uncached_locations, response, st) ==
    LET llm_results == LlmResults(uncached_locations, response) IN
    [result |-> FinalResults(Len(locations), cache_results, llm_results),
     st |-> [st EXCEPT !.cache = WriteAll(@, uncached_locations, llm_results, 1)]]

\* batch_processor.py:103-110   location_cache.update(location_mapping)
RECURSIVE UpdateMapping(_, _, _, _)
UpdateMapping(lc, unique_locations, parsed_results, i) ==
    IF i > Len(unique_locations) THEN lc
    ELSE UpdateMapping((unique_locations[i] :> parsed_results[i]) @@ lc,
                       unique_locations, parsed_results, i + 1)

\* The rest of a call once _make_llm_request has returned `response`: no
\* await lies between that return and the return of the outermost call.
Completed(co, response, st) ==
    IF co.op = "parse_location_single"
    THEN SingleDone(co.arg[1], response, st).st
    ELSE IF co.op = "parse_locations_batch"
    THEN BatchDone(co.arg[1], co.cache_results, co.locations, response, st).st
    ELSE IF co.op = "enhance_job_with_cached_data"
    THEN \* batch_processor.py:158-161, 257-263
         LET location_raw == EnhanceLocation(co.arg[1])
             d == SingleDone(location_raw, response, st)
         IN  [d.st EXCEPT
                 !.location_cache = (Strip(location_raw) :> d.result) @@ @,
                 !.enhanced = Append(@, WithParsed(co.arg[1], d.result))]
    ELSE \* "prepare_batch_cache": batch_processor.py:101-113, 225-226
         LET d == BatchDone(co.arg[1], co.cache_results, co.locations, response, st) IN
         [d.st EXCEPT
             !.location_cache = UpdateMapping(@, co.arg[1], d.result, 1),
             !.prepared = TRUE]

\* the enrichment state becomes st
Becomes(st) ==
    /\ cache' = st.cache
    /\ location_cache' = st.location_cache
    /\ prepared' = st.prepared
    /\ enhanced' = st.enhanced

\* intelligent_parser.py:156-170   _make_llm_request is entered by the call
\* co: without an API key it returns the fallback at once, otherwise the
\* call waits for the endpoint
EnterRequest(c, co) ==
    IF ~api_key
    THEN /\ Becomes(Completed(co, NoReply, Enrichment))
         /\ coro' = [coro EXCEPT ![c] = IdleCoro]
    ELSE /\ coro' = [coro EXCEPT ![c] = [co EXCEPT !.pc = "request", !.attempt = 0]]
         /\ UNCHANGED <<cache, location_cache, prepared, enhanced>>

\* ---- IntelligentParser, called directly ---------------------------------
\* intelligent_parser.py:341-367   parse_location_single up to the request
BeginSingle(c, location) ==
    /\ coro[c].pc = "idle"
    /\ parse_calls < MaxParseCalls
    /\ parse_calls' = parse_calls + 1
    /\ LET co == [IdleCoro EXCEPT !.op = "parse_location_single",
                                  !.arg = <<location>>,
                                  !.locations = <<location>>]
       IN  IF location = <<>> \/ _get_cache_key(location) \in DOMAIN cache
           THEN \* 355-357, 360-363: nothing is parsed
                UNCHANGED <<coro, cache, location_cache, prepared, enhanced,
                            single_calls>>
           ELSE /\ single_calls' = single_calls + 1
                /\ EnterRequest(c, co)
    /\ UNCHANGED <<enabled, endpoint, batch_calls, summaries, last, notParser>>

\* intelligent_parser.py:383-423   parse_locations_batch up to the request
BeginBatch(c, locations) ==
    /\ coro[c].pc = "idle"
    /\ parse_calls < MaxParseCalls
    /\ parse_calls' = parse_calls + 1
    /\ LET cache_results == CacheResults(locations, cache)
           uncached_locations == UncachedLocations(locations, cache)
           co == [IdleCoro EXCEPT !.op = "parse_locations_batch",
                                  !.arg = <<locations>>,
                                  !.locations = uncached_locations,
                                  !.cache_results = cache_results]
       IN  IF uncached_locations = <<>>
           THEN \* 393-395, 419: every location is cached, or there is none
                UNCHANGED <<coro, cache, location_cache, prepared, enhanced,
                            batch_calls>>
           ELSE /\ batch_calls' = batch_calls + 1
                /\ EnterRequest(c, co)
    /\ UNCHANGED <<enabled, endpoint, single_calls, summaries, last, notParser>>

\* intelligent_parser.py:162-221   the endpoint answers the request of the
\* call of caller c: the parsed answer is returned (198, 206); an exception
\* or an empty answer counts an attempt (213-218) and the third one returns
\* the fallback (221); any other answer repeats the request with attempt
\* unchanged (211, 201, 209, 210)
Response(c) ==
    /\ coro[c].pc = "request"
    /\ \E b \in endpoint :
        IF ReturnsParsed(b)
        THEN /\ \E st \in {Completed(coro[c], r, Enrichment) : r \in Replies(b, Len(coro[c].locations))} :
                    Becomes(st)
             /\ coro' = [coro EXCEPT ![c] = IdleCoro]
        ELSE IF RaisesException(b)
        THEN IF coro[c].attempt + 1 >= max_retries
             THEN /\ Becomes(Completed(coro[c], NoReply, Enrichment))
                  /\ coro' = [coro EXCEPT ![c] = IdleCoro]
             ELSE /\ coro' = [coro EXCEPT ![c].attempt = @ + 1]
                  /\ UNCHANGED <<cache, location_cache, prepared, enhanced>>
        ELSE UNCHANGED <<coro, cache, location_cache, prepared, enhanced>>
    /\ UNCHANGED <<enabled, endpoint, batch_calls, single_calls, parse_calls,
                   summaries, last, notParser>>

\* ---- the batch processors, called by one crawl --------------------------
\* batch_processor.py:206-226, 79-101   prepare_batch_cache up to the request
BeginPrepare ==
    /\ coro[1].pc = "idle"
    /\ ~prepared
    /\ enhanced = <<>>
    /\ IF ~enabled
       THEN \* 213-215
            /\ prepared' = TRUE
            /\ UNCHANGED <<coro, cache, location_cache, enhanced, batch_calls>>
       ELSE \E unique_locations \in Orderings(UniqueLocations(summaries)) :
            LET cache_results == CacheResults(unique_locations, cache)
                uncached_locations == UncachedLocations(unique_locations, cache)
                co == [IdleCoro EXCEPT !.op = "prepare_batch_cache",
                                       !.arg = <<unique_locations>>,
                                       !.locations = uncached_locations,
                                       !.cache_results = cache_results]
            IN  IF unique_locations = <<>>
                THEN \* 93-95: no unique location
                     /\ prepared' = TRUE
                     /\ UNCHANGED <<coro, cache, location_cache, enhanced,
                                    batch_calls>>
                ELSE IF uncached_locations = <<>>
                THEN \* every location is in the cache of the parser
                     /\ Becomes(Completed(co, NoReply, Enrichment))
                     /\ UNCHANGED <<coro, batch_calls>>
                ELSE /\ batch_calls' = batch_calls + 1
                     /\ EnterRequest(1, co)
    /\ UNCHANGED <<enabled, endpoint, single_calls, parse_calls, summaries,
                   last, notParser>>

\* batch_processor.py:228-263, 135-163   enhance_job_with_cached_data for
\* the next summary of the crawl, up to the request
BeginEnhance ==
    /\ coro[1].pc = "idle"
    /\ Len(enhanced) < Len(summaries)
    /\ LET job_data == summaries[Len(enhanced) + 1]
           location_raw == EnhanceLocation(job_data)
           co == [IdleCoro EXCEPT !.op = "enhance_job_with_cached_data",
                                  !.arg = <<job_data>>,
                                  !.locations = <<location_raw>>]
           returns(parsed_location) ==
               /\ enhanced' = Append(enhanced, WithParsed(job_data, parsed_location))
               /\ UNCHANGED <<coro, cache, prepared, single_calls>>
       IN  IF location_raw = <<>> \/ location_raw = LocNA
           THEN \* 246-254
                returns(UnknownFallback) /\ UNCHANGED location_cache
           ELSE IF Strip(location_raw) \in DOMAIN location_cache
           THEN \* 149-152: cache hit
                returns(location_cache[Strip(location_raw)])
                /\ UNCHANGED location_cache
           ELSE IF ~enabled
           THEN \* 165-175: basic parsing
                returns(BasicParsing(location_raw)) /\ UNCHANGED location_cache
           ELSE IF _get_cache_key(location_raw) \in DOMAIN cache
           THEN \* 158-161 with the cache hit of parse_location_single
                /\ returns(cache[_get_cache_key(location_raw)])
                /\ location_cache' =
                       (Strip(location_raw) :> cache[_get_cache_key(location_raw)])
                           @@ location_cache
           ELSE /\ single_calls' = single_calls + 1
                /\ EnterRequest(1, co)
    /\ UNCHANGED <<enabled, endpoint, batch_calls, parse_calls, summaries,
                   last, notParser>>

\* ---- one caller of the parser, one call at a time -----------------------
\* the values _make_llm_request can return for a request about n locations
Returns(n) == Replies("dict_ok", n) \cup Replies("list_ok", n) \cup {NoReply}

\* a whole call of parse_locations_batch: with one caller nothing runs
\* between its request and the answer
CallBatch(locations) ==
    /\ last = <<>>
    /\ parse_calls < MaxParseCalls
    /\ parse_calls' = parse_calls + 1
    /\ LET cache_results == CacheResults(locations, cache)
           uncached_locations == UncachedLocations(locations, cache)
       IN  IF uncached_locations = <<>>
           THEN /\ last' = <<[op |-> "parse_locations_batch", arg |-> locations,
                              cache_results |-> cache_results,
                              reply |-> <<>>,
                              result |-> FinalResults(Len(locations), cache_results, <<>>)]>>
                /\ UNCHANGED <<cache, batch_calls>>
           ELSE /\ batch_calls' = batch_calls + 1
                /\ \E new \in {[reply |-> r,
                                d |-> BatchDone(locations, cache_results,
                                                uncached_locations, r, Enrichment)] :
                               r \in Returns(Len(uncached_locations))} :
                    /\ cache' = new.d.st.cache
                    /\ last' = <<[op |-> "parse_locations_batch", arg |-> locations,
                                  cache_results |-> cache_results,
                                  reply |-> <<new.reply>>,
                                  result |-> new.d.result]>>
    /\ UNCHANGED <<enabled, endpoint, location_cache, coro, single_calls,
                   summaries, prepared, enhanced, notParser>>

\* a whole call of parse_location_single
CallSingle(location) ==
    /\ last = <<>>
    /\ parse_calls < MaxParseCalls
    /\ parse_calls' = parse_calls + 1
    /\ IF location = <<>>
       THEN /\ last' = <<[op |-> "parse_location_single", arg |-> location,
                          result |-> UnknownFallback]>>
            /\ UNCHANGED <<cache, single_calls>>
       ELSE IF _get_cache_key(location) \in DOMAIN cache
       THEN /\ last' = <<[op |-> "parse_location_single", arg |-> location,
                          result |-> cache[_get_cache_key(location)]]>>
            /\ UNCHANGED <<cache, single_calls>>
       ELSE /\ single_calls' = single_calls + 1
            /\ \E d \in {SingleDone(location, r, Enrichment) : r \in Returns(1)} :
                /\ cache' = d.st.cache
                /\ last' = <<[op |-> "parse_location_single", arg |-> location,
                              result |-> d.result]>>
    /\ UNCHANGED <<enabled, endpoint, location_cache, coro, batch_calls,
                   summaries, prepared, enhanced, notParser>>

(*************************************************************************)
(* WorkdayScraper.paginate_through_job_listings (crawler.py:56-143) and  *)
(* _extract_job_summaries (crawler.py:186-254) on one board.             *)
(*                                                                       *)
(* A page is the list of its job items; an item is                       *)
(*   "ok"        title, link, location and date are read                 *)
(*   "no_title"  the item has no title element or no href (217, 219)     *)
(*   "error"     reading the item raises (a detached element, a closed   *)
(*               page)                                                   *)
(* A page whose query_selector_all raises (205) is the page <<>>: both   *)
(* yield no summary.  The summary of item i of page p is <<p, i>>.       *)
(*************************************************************************)
ItemKinds == {"ok", "no_title", "error"}

\* crawler.py:206-250   the loop over the items of page p from item i on:
\* an item that raises ends the loop (251-252)
RECURSIVE ExtractFrom(_, _, _)
ExtractFrom(p, items, i) ==
    IF i > Len(items) \/ items[i] = "error" THEN <<>>
    ELSE IF items[i] = "ok"
    THEN <<<<p, i>>>> \o ExtractFrom(p, items, i + 1)
    ELSE ExtractFrom(p, items, i + 1)

\* crawler.py:186-254
_extract_job_summaries(p, items) == ExtractFrom(p, items, 1)

\* the except clauses when the list collected so far is dropped
OnException_ReturnsEmpty(collected) == [pc |-> "returned", list |-> <<>>]

\* crawler.py:137-143   both except clauses log; the function returns
\* all_job_summaries
OnException(collected) == [pc |-> "returned", list |-> collected]

\* crawler.py:100   `if max_pages and page_count > max_pages`, never true
PageLimitReached_Never(count, limit) == FALSE

\* crawler.py:100   `if max_pages and page_count > max_pages`: None and 0
\* mean no limit
PageLimitReached(count, limit) == limit # 0 /\ count > limit

\* browser.py:73-74   what navigate_to_next_page finds: the button of the
\* next page enabled, disabled or absent, or a call that raises
ButtonStates == {"enabled", "disabled", "absent", "error"}

\* no board is being paginated
CrawlIdle ==
    /\ crawl_pc = "idle"
    /\ next_button = "none"
    /\ page_count = 0
    /\ max_pages = 0
    /\ all_job_summaries = <<>>
    /\ crawl_error = "none"
    /\ pages = <<>>

\* an exception reaches the except clauses of 137-140
Fail(exception) ==
    /\ crawl_error' = IF exception = "timeout" THEN "PlaywrightTimeoutError"
                                                ELSE "Exception"
    /\ crawl_pc' = OnException(all_job_summaries).pc
    /\ all_job_summaries' = OnException(all_job_summaries).list

\* crawler.py:90   await page.wait_for_selector(JOB_LIST_SELECTOR)
WaitForList ==
    /\ crawl_pc = "start"
    /\ \E outcome \in {"ok", "timeout", "error"} :
        IF outcome = "ok"
        THEN crawl_pc' = "check" /\ UNCHANGED <<all_job_summaries, crawl_error>>
        ELSE Fail(outcome)
    /\ UNCHANGED <<page_count, max_pages, pages, next_button, notCrawl>>

\* crawler.py:94, browser.py:50-66   check_pagination_exists catches the
\* timeout only
CheckPagination ==
    /\ crawl_pc = "check"
    /\ \E outcome \in {"found", "timeout", "error"} :
        IF outcome = "found"
        THEN crawl_pc' = "page" /\ UNCHANGED <<all_job_summaries, crawl_error>>
        ELSE IF outcome = "timeout"
        THEN crawl_pc' = "scroll" /\ UNCHANGED <<all_job_summaries, crawl_error>>
        ELSE Fail(outcome)
    /\ UNCHANGED <<page_count, max_pages, pages, next_button, notCrawl>>

\* crawler.py:99-116   one page of the pagination loop: the page limit,
\* the extraction of the current page
ExtractPage ==
    /\ crawl_pc = "page"
    /\ page_count' = page_count + 1
    /\ IF PageLimitReached(page_count', max_pages)
       THEN /\ crawl_pc' = "returned"
            /\ UNCHANGED <<all_job_summaries, pages>>
       ELSE \E items \in SeqsUpTo(ItemKinds, MaxItems) :
            /\ pages' = Append(pages, items)
            /\ all_job_summaries' =
                   all_job_summaries \o _extract_job_summaries(Len(pages) + 1, items)
            /\ crawl_pc' = "navigate"
    /\ UNCHANGED <<max_pages, crawl_error, next_button, notCrawl>>

\* crawler.py:119-121, browser.py:68-97   navigate_to_next_page: True after
\* the click on an enabled button and the load of the next page; False when
\* the button is absent or disabled and when a call raises (it catches
\* every exception).  The last page of the board has no enabled button.
NavigateNext ==
    /\ crawl_pc = "navigate"
    /\ \E button \in IF Len(pages) < MaxPages THEN ButtonStates
                      ELSE ButtonStates \ {"enabled"} :
        /\ next_button' = button
        /\ crawl_pc' = IF button = "enabled" THEN "wait" ELSE "returned"
    /\ UNCHANGED <<page_count, max_pages, all_job_summaries, crawl_error, pages,
                   notCrawl>>

\* crawler.py:124   await page.wait_for_timeout(2000)
WaitForContent ==
    /\ crawl_pc = "wait"
    /\ \E outcome \in {"ok", "error"} :
        IF outcome = "ok"
        THEN crawl_pc' = "page" /\ UNCHANGED <<all_job_summaries, crawl_error>>
        ELSE Fail(outcome)
    /\ UNCHANGED <<page_count, max_pages, pages, next_button, notCrawl>>

\* crawler.py:126-135, browser.py:198-251   infinite scroll:
\* scroll_to_load_all_jobs catches every exception; then the one page is
\* extracted
ScrollAndExtract ==
    /\ crawl_pc = "scroll"
    /\ \E items \in SeqsUpTo(ItemKinds, MaxItems) :
        /\ pages' = Append(pages, items)
        /\ all_job_summaries' = _extract_job_summaries(Len(pages) + 1, items)
    /\ crawl_pc' = "returned"
    /\ UNCHANGED <<page_count, max_pages, crawl_error, next_button, notCrawl>>

(*************************************************************************)
(* scroll_to_load_all_jobs (common/browser.py:198-251) and the           *)
(* extraction its caller makes afterwards.                               *)
(*                                                                       *)
(* The list delivers its items in batches: `available` batches in all,   *)
(* `loaded` of them in the DOM; a scroll to the bottom followed by the   *)
(* wait of one second brings the next batch or, when the page is slow or *)
(* the list is exhausted, nothing.  Counts are in batches; the first     *)
(* batch of a list that is not empty is in the DOM when the call starts. *)
(*                                                                       *)
(* The two call sites:                                                   *)
(*   "browser"  browser.py:148-151   (page, job_list_selector,           *)
(*              job_item_selector, show_loading_bar=...)                 *)
(*   "crawler"  crawler.py:128   (page, JOB_ITEM_SELECTOR,               *)
(*              show_loading_bar): the parameter job_list_selector gets  *)
(*              the item selector and job_item_selector gets the bool    *)
(*************************************************************************)
ScrollCallers == {"browser", "crawler"}

\* the argument bound to the parameter job_item_selector is a selector
ItemSelectorIsString(caller) == caller = "browser"

\* browser.py:221-228   the counter after an iteration, without the reset
AfterIteration_NoReset(counter, grew) == IF grew THEN counter ELSE counter + 1

\* browser.py:221-228   scroll_attempts after an iteration: reset when the
\* count grew, incremented otherwise
AfterIteration(counter, grew) == IF grew THEN 0 ELSE counter + 1

\* browser.py:211, 235-240   the loop goes on
LoopContinues(counter) ==
    counter < StagnationThreshold /\ counter < max_scroll_attempts

\* no call of scroll_to_load_all_jobs is in progress
ScrollIdle ==
    /\ scroll_pc = "idle"
    /\ scroll_caller = "none"
    /\ page_faults = FALSE
    /\ available = 0
    /\ loaded = 0
    /\ job_list_items_count = 0
    /\ scroll_attempts = 0
    /\ scroll_result = "none"
    /\ iterations = 0
    /\ last_growth = 0
    /\ extracted = <<>>

\* browser.py:243-251   the except clauses: a timeout falls out of the
\* function (None), any other exception returns False
ScrollFails(exception) ==
    /\ scroll_pc' = "returned"
    /\ scroll_result' = IF exception = "timeout" THEN "None" ELSE "False"

\* the outcomes of a Playwright call whose arguments are valid
CallOutcomes == IF page_faults THEN {"ok", "timeout", "error"} ELSE {"ok"}

\* browser.py:208   await page.wait_for_selector(job_list_selector): the
\* call of the crawler waits for a job item, so it times out on a list
\* that shows none
WaitForSelector ==
    /\ scroll_pc = "start"
    /\ \E outcome \in IF scroll_caller = "crawler" /\ loaded = 0
                       THEN {"timeout"} ELSE CallOutcomes :
        IF outcome = "ok"
        THEN scroll_pc' = "loop" /\ UNCHANGED scroll_result
        ELSE ScrollFails(outcome)
    /\ UNCHANGED <<scroll_caller, page_faults, available, loaded,
                   job_list_items_count, scroll_attempts, iterations,
                   last_growth, extracted, notScroll>>

\* browser.py:211-240   one iteration of the while loop: the query of the
\* items (213), the counter (221-228), the scroll and the wait (223-224,
\* 232-233) during which the page may load the next batch, the test of
\* 235.  query_selector_all raises when its selector is not a string.
ScrollIteration ==
    /\ scroll_pc = "loop"
    /\ scroll_attempts < max_scroll_attempts
    /\ IF ~ItemSelectorIsString(scroll_caller)
       THEN /\ ScrollFails("error")
            /\ UNCHANGED <<job_list_items_count, scroll_attempts, iterations,
                           last_growth, loaded>>
       ELSE \E outcome \in CallOutcomes :
            IF outcome # "ok"
            THEN /\ ScrollFails(outcome)
                 /\ UNCHANGED <<job_list_items_count, scroll_attempts,
                                iterations, last_growth, loaded>>
            ELSE LET grew == loaded > job_list_items_count IN
                 /\ iterations' = iterations + 1
                 /\ job_list_items_count' = loaded
                 /\ scroll_attempts' = AfterIteration(scroll_attempts, grew)
                 /\ last_growth' = IF grew THEN iterations' ELSE last_growth
                 /\ \E more \in {0, 1} :
                        /\ loaded + more <= available
                        /\ loaded' = loaded + more
                 /\ IF LoopContinues(scroll_attempts')
                    THEN UNCHANGED <<scroll_pc, scroll_result>>
                    ELSE scroll_pc' = "returned" /\ scroll_result' = "True"
    /\ UNCHANGED <<scroll_caller, page_faults, available, extracted, notScroll>>

\* crawler.py:131-133, browser.py:153-158   the caller ignores the value
\* returned and extracts the summaries of the items in the DOM
ExtractAfterScroll ==
    /\ scroll_pc = "returned"
    /\ extracted' = <<loaded>>
    /\ scroll_pc' = "extracted"
    /\ UNCHANGED <<scroll_caller, page_faults, available, loaded,
                   job_list_items_count, scroll_attempts, scroll_result,
                   iterations, last_growth, notScroll>>

(*************************************************************************)
(* The fleet: run_scraper (scripts/scraper.py:15-44) calls               *)
(* asyncio.run(scraper(...)) for each board of each platform, one after  *)
(* the other; scraper() (scraper/main.py:59-154) crawls one board.  A    *)
(* step of scraper() either succeeds or raises; where the exception goes *)
(* is read off the try blocks of main.py and browser.py:10-48.           *)
(*************************************************************************)
PlatWorkdayCap == <<"W", "o", "r", "k", "d", "a", "y">>
PlatWorkday == <<"w", "o", "r", "k", "d", "a", "y">>
PlatLever == <<"l", "e", "v", "e", "r">>
PlatformNames == {PlatWorkdayCap, PlatWorkday, PlatLever}

\* factory.py:25-79   no platform is registered
Registered_Nothing(platform) == FALSE

\* factory.py:40-79, 96-97   _discover_platforms registers the lower-cased
\* name of each directory of scraper/platforms holding crawler.py,
\* parser.py and config.py: the directory workday (its config module is
\* imported by crawler.py:21-29)
Registered(platform) == platform = PlatWorkday

\* scripts/scraper.py:25-27   run_scraper crawls the boards of this key only
Crawls(platform) == platform = PlatWorkdayCap

\* no location text is being parsed
LocIdle ==
    /\ loc_fn = "none"
    /\ loc_raw = <<>>
    /\ loc_parsed = <<>>

\* neither run_scraper nor scraper() has been called
FleetIdle ==
    /\ fleet_entry = "none"
    /\ boards = <<>>
    /\ current = 0
    /\ fleet_pc = "idle"
    /\ board_pc = "idle"
    /\ all_data = "[]"
    /\ io = {}
    /\ board_outcome = <<>>

NotStarted == [result |-> "none", log |-> "none"]

\* scraper() returns to its caller
Return(result, log) ==
    /\ board_outcome' = [board_outcome EXCEPT ![current] = [result |-> result, log |-> log]]
    /\ board_pc' = "idle"
    /\ fleet_pc' = IF fleet_entry = "scraper" THEN "finished" ELSE fleet_pc
    /\ UNCHANGED <<fleet_entry, boards, current>>

\* An exception leaves scraper(); scripts/scraper.py:38-44 has no handler
\* around asyncio.run, so it leaves run_scraper too.
Escapes ==
    /\ board_outcome' = [board_outcome EXCEPT ![current] = [result |-> "raised", log |-> "none"]]
    /\ board_pc' = "idle"
    /\ fleet_pc' = "raised"
    /\ UNCHANGED <<fleet_entry, boards, current>>

\* main.py:84-98 without the handler of ValueError
OnValueError_Uncaught == Escapes

\* main.py:90-92   except ValueError: the configuration error is logged
\* and scraper() returns []
OnValueError == Return("[]", "Configuration error")

\* scripts/scraper.py:21-44   the loops of run_scraper: the next board, or
\* the end; the boards of a platform other than "Workday" are skipped
NextBoard ==
    /\ fleet_entry = "run_scraper"
    /\ fleet_pc = "running"
    /\ board_pc = "idle"
    /\ IF current = Len(boards)
         THEN /\ fleet_pc' = "finished"
              /\ UNCHANGED <<current, board_pc, board_outcome>>
         ELSE /\ current' = current + 1
              /\ fleet_pc' = fleet_pc
              /\ IF Crawls(boards[current + 1])
                   THEN /\ board_pc' = "create"
                        /\ board_outcome' = board_outcome
                   ELSE /\ board_pc' = "idle"
                        /\ board_outcome' = [board_outcome EXCEPT ![current + 1] =
                                         [result |-> "skipped", log |-> "none"]]
    /\ UNCHANGED <<fleet_entry, boards, all_data, io, notFleet>>

\* main.py:84-98   create_scraper(platform.lower(), config): factory.py:96-97
\* raises ValueError for a name that is not registered; for a registered
\* one the validation of the classes may raise ValueError too, the import
\* of the modules ImportError or anything else; all are caught and [] is
\* returned
CreateScraper ==
    /\ fleet_pc = "running"
    /\ board_pc = "create"
    /\ IF ~Registered(Lower(boards[current]))
         THEN OnValueError
         ELSE \E r \in {"ok", "ValueError", "ImportError", "Exception"} :
                CASE r = "ok" ->
                       /\ board_pc' = "playwright"
                       /\ UNCHANGED <<fleet_entry, boards, current, fleet_pc, board_outcome>>
                  [] r = "ValueError" -> OnValueError
                  [] r = "ImportError" -> Return("[]", "Import error")
                  [] OTHER -> Return("[]", "Unexpected error")
    /\ UNCHANGED <<all_data, io, notFleet>>

\* main.py:100   async with async_playwright() as p: outside any try
StartPlaywright ==
    /\ fleet_pc = "running"
    /\ board_pc = "playwright"
    /\ \E ok \in BOOLEAN :
         IF ok
           THEN /\ board_pc' = "launch"
                /\ io' = io \cup {<<current, "playwright">>}
                /\ UNCHANGED <<fleet_entry, boards, current, fleet_pc, board_outcome>>
           ELSE /\ Escapes
                /\ io' = io
    /\ UNCHANGED <<all_data, notFleet>>

\* main.py:101-103, browser.py:16-29   launch, then new_context, route and
\* new_page: outside the try of browser.py:37 and of main.py:108, so that
\* an exception of any of them leaves scraper() through the exit of
\* `async with async_playwright()` (main.py:100), which stops Playwright;
\* browser.close() is not called on that path
Launch ==
    /\ fleet_pc = "running"
    /\ board_pc = "launch"
    /\ \E r \in {"ok", "launch fails", "setup fails"} :
         CASE r = "ok" ->
                /\ board_pc' = "goto"
                /\ io' = io \cup {<<current, "browser">>}
                /\ UNCHANGED <<fleet_entry, boards, current, fleet_pc, board_outcome>>
           [] r = "launch fails" ->
                /\ Escapes
                /\ io' = io \cup {<<current, "stop">>}
           [] OTHER ->
                /\ Escapes
                /\ io' = io \cup {<<current, "browser">>, <<current, "stop">>}
    /\ UNCHANGED <<all_data, notFleet>>

\* browser.py:37-48, main.py:104-106   page.goto: a timeout is tolerated;
\* on another error the browser is closed (a close that fails raises out
\* of the handler) and scraper() returns []
Goto ==
    /\ fleet_pc = "running"
    /\ board_pc = "goto"
    /\ \E r \in {"ok", "timeout", "error", "error, close fails"} :
         CASE r = "ok" ->
                /\ board_pc' = "extract"
                /\ io' = io \cup {<<current, "goto">>, <<current, "page">>}
                /\ UNCHANGED <<fleet_entry, boards, current, fleet_pc, board_outcome>>
           [] r = "timeout" ->
                /\ board_pc' = "extract"
                /\ io' = io \cup {<<current, "goto">>, <<current, "page">>,
                                  <<current, "timeout">>}
                /\ UNCHANGED <<fleet_entry, boards, current, fleet_pc, board_outcome>>
           [] r = "error" ->
                /\ Return("[]", "Failed to initialize browser")
                /\ io' = io \cup {<<current, "goto">>, <<current, "close">>,
                                  <<current, "stop">>}
           [] OTHER ->
                /\ Escapes
                /\ io' = io \cup {<<current, "goto">>, <<current, "close">>,
                                  <<current, "stop">>}
    /\ UNCHANGED <<all_data, notFleet>>

\* Variant: the error handler returns without the finally block.
AfterError_Returns == "idle"

\* main.py:146-152   after the except clause the finally block runs
AfterError == "close"

\* main.py:108-122, 146-148   extract_job_summaries inside the try: an
\* exception empties all_job_data and control goes to the finally block
ExtractSummaries ==
    /\ fleet_pc = "running"
    /\ board_pc = "extract"
    /\ \E ok \in BOOLEAN :
         /\ board_pc' = IF ok THEN "details" ELSE AfterError
         /\ all_data' = "[]"
    /\ io' = io \cup {<<current, "extract">>}
    /\ UNCHANGED <<fleet_entry, boards, current, fleet_pc, board_outcome, notFleet>>

\* main.py:124-136, 146-148   process_job_details_parallel and
\* filter_job_data inside the try
ProcessDetails ==
    /\ fleet_pc = "running"
    /\ board_pc = "details"
    /\ \E ok \in BOOLEAN :
         /\ board_pc' = IF ok THEN "save" ELSE AfterError
         /\ all_data' = IF ok THEN "data" ELSE "[]"
    /\ UNCHANGED <<fleet_entry, boards, current, fleet_pc, io, board_outcome, notFleet>>

\* main.py:138-144, 43-57   the CSV file or save_job_listing_data_to_db in
\* a thread; the latter catches its own exceptions, anything else is
\* caught by main.py:146
Save ==
    /\ fleet_pc = "running"
    /\ board_pc = "save"
    /\ \E r \in {"saved", "save failed inside", "raised"} :
         /\ all_data' = IF r = "raised" THEN "[]" ELSE all_data
         /\ io' = IF r = "saved" THEN io \cup {<<current, "store">>} ELSE io
         /\ board_pc' = IF r = "raised" THEN AfterError ELSE "close"
    /\ UNCHANGED <<fleet_entry, boards, current, fleet_pc, board_outcome, notFleet>>

\* main.py:150-154   finally: await browser.close(), then the exit of the
\* `async with` block and return all_job_data
CloseBrowser ==
    /\ fleet_pc = "running"
    /\ board_pc = "close"
    /\ \E ok \in BOOLEAN :
         IF ok THEN Return(all_data, "none") ELSE Escapes
    /\ io' = io \cup {<<current, "close">>, <<current, "stop">>}
    /\ UNCHANGED <<all_data, notFleet>>

(*************************************************************************)
(* The store: the tables of database/model.py in one SQLite file         *)
(* (model.py:76-77) and update_job_listings (functions.py:80-198), called *)
(* by independent callers, each with a session of its own                *)
(* (functions.py:91).                                                    *)
(*                                                                       *)
(* session[s]:                                                           *)
(*   pc             "idle", "loop" (functions.py:96), "create_company"   *)
(*                  (the flush of 212), "listing" (159-178), "done"      *)
(*   left           records of all_job_data not yet visited              *)
(*   job_data       <<r>> for the record being processed                 *)
(*   listings, companies   rows flushed in the open transaction          *)
(*   success_count  functions.py:92                                      *)
(*   last           how the last insert of a listing ended               *)
(*   inserted       history: the rows whose flush succeeded in this call *)
(*   result         first component of the value returned                *)
(*   committed      history: the listings the commit of the call stored  *)
(*************************************************************************)
Sessions == {1, 2}
Titles == {"t1", "t2"}
Companies == {"c1"}
Links == {"l1", "l2"}

\* the dictionaries a batch can hold: the title may be missing, the parsed
\* date may be absent, ISO or not ISO, the board may be unknown to the store
JobInputs ==
    [title : Titles \cup {None}, company_name : Companies, url : Links,
     job_board_url : {"known", "unknown"},
     date_posted_parsed : {None, "2025-06-01", "yesterday"}]

\* functions.py:135-147   the required fields and dt.fromisoformat
Valid(r) == r.title # None /\ r.date_posted_parsed # "yesterday"

\* functions.py:167-176   the row of the record
Row(r) == [title |-> r.title, company |-> r.company_name, link |-> r.url]

IdleSession ==
    [pc |-> "idle", left |-> 0, job_data |-> <<>>, listings |-> EmptyBag,
     companies |-> {}, success_count |-> 0, last |-> "none",
     inserted |-> {}, result |-> "none", committed |-> 0]

\* no call of update_job_listings is in progress and the store is empty
StoreIdle ==
    /\ db_listings = EmptyBag
    /\ db_companies = {}
    /\ writer = 0
    /\ session = [s \in Sessions |-> IdleSession]
    /\ db_faults = TRUE
    /\ batch = <<>>
    /\ calls = 0
    /\ stores = <<>>

\* the rows a statement of session s sees: the committed ones and those of
\* its own transaction
VisibleListings(s) == db_listings (+) session[s].listings

VisibleCompanies(s) == db_companies \cup session[s].companies

\* another session holds the write lock of the SQLite file
Locked(s) == writer \notin {0, s}

\* Variant: a table without the unique constraints.
UniqueViolation_NoConstraint(s, row) == FALSE

\* Variant: only the composite constraint, link alone is not unique.
UniqueViolation_CompositeOnly(s, row) ==
    \E x \in BagToSet(VisibleListings(s)) :
        x.title = row.title /\ x.company = row.company /\ x.link = row.link

\* model.py:57 link unique; model.py:68 UniqueConstraint(title, company_id,
\* link)
UniqueViolation(s, row) ==
    \E x \in BagToSet(VisibleListings(s)) :
        \/ x.link = row.link
        \/ (x.title = row.title /\ x.company = row.company /\ x.link = row.link)

\* db_session.rollback(): the open transaction of the session is discarded
Rollback(ss) == [ss EXCEPT !.listings = EmptyBag, !.companies = {}]

\* the write lock after session s rolled back or committed
ReleasedBy(s) == IF writer = s THEN 0 ELSE writer

\* Variant: the flush does not check the constraints.
ListingOutcomes_Unchecked(s, row) ==
    IF Locked(s) THEN {"error"}
    ELSE IF db_faults THEN {"ok", "error"}
    ELSE {"ok"}

\* how the flush of a listing row ends (functions.py:167-178): "error" is
\* any exception that is no IntegrityError, database-is-locked included
ListingOutcomes(s, row) ==
    IF Locked(s) THEN {"error"}
    ELSE IF UniqueViolation(s, row) THEN {"IntegrityError"}
    ELSE IF db_faults THEN {"ok", "error"}
    ELSE {"ok"}

\* how the flush of a company row ends (functions.py:211-226; model.py:16
\* name unique)
CompanyOutcomes(s, name) ==
    IF Locked(s) THEN {"error"}
    ELSE IF name \in VisibleCompanies(s) THEN {"IntegrityError"}
    ELSE IF db_faults THEN {"ok", "error"}
    ELSE {"ok"}

\* functions.py:91-93   a caller enters update_job_listings with a batch of
\* n records (the histories calls and stores are kept by the specification)
Call(s) ==
    /\ session[s].pc \in {"idle", "done"}
    /\ \E n \in 1..MaxBatch :
         session' = [session EXCEPT ![s] =
                        [IdleSession EXCEPT !.pc = "loop", !.left = n]]
    /\ UNCHANGED <<db_listings, db_companies, writer, repeatVars, notStore>>

\* functions.py:96-147, 151 with 205-207: the next record of the batch, its
\* validation, and the query for its company
NextRecord(s) ==
    /\ session[s].pc = "loop"
    /\ session[s].left > 0
    /\ \E r \in JobInputs :
         LET ss == [session[s] EXCEPT !.left = @ - 1] IN
         session' = [session EXCEPT ![s] =
            IF ~Valid(r) THEN ss
            ELSE IF r.company_name \in VisibleCompanies(s)
            THEN [ss EXCEPT !.pc = "listing", !.job_data = <<r>>]
            ELSE [ss EXCEPT !.pc = "create_company", !.job_data = <<r>>]]
    /\ UNCHANGED <<db_listings, db_companies, writer, repeatVars, calls, stores,
                   notStore>>

\* functions.py:209-226   _get_or_create_company adds the company; back in
\* update_job_listings, a None skips the record (153-156)
CreateCompany(s) ==
    /\ session[s].pc = "create_company"
    /\ LET ss == session[s]
           name == ss.job_data[1].company_name
       IN \E o \in CompanyOutcomes(s, name) :
           CASE o = "ok" ->
                  /\ session' = [session EXCEPT ![s] =
                        [ss EXCEPT !.companies = @ \cup {name},
                                   !.pc = "listing"]]
                  /\ writer' = s
             [] o = "IntegrityError" ->
                  /\ session' = [session EXCEPT ![s] =
                        [Rollback(ss) EXCEPT !.pc = "listing"]]
                  /\ writer' = ReleasedBy(s)
             [] o = "error" ->
                  /\ session' = [session EXCEPT ![s] =
                        [Rollback(ss) EXCEPT !.pc = "loop", !.job_data = <<>>]]
                  /\ writer' = ReleasedBy(s)
    /\ UNCHANGED <<db_listings, db_companies, repeatVars, calls, stores,
                   notStore>>

\* Variant: a flushed row is durable at once (autocommit).
FlushedTo_Autocommit(committed, row) == committed (+) SetToBag({row})

\* functions.py:177-178   add and flush send the INSERT inside the open
\* transaction: the committed rows are the same
FlushedTo(committed, row) == committed

\* functions.py:159-189   the job board query, then the listing is built,
\* added and flushed; both except clauses roll the session back
InsertListing(s) ==
    /\ session[s].pc = "listing"
    /\ LET ss == [session[s] EXCEPT !.pc = "loop", !.job_data = <<>>]
           r == session[s].job_data[1]
       IN IF r.job_board_url = "unknown"
          THEN /\ session' = [session EXCEPT ![s] = ss]
               /\ UNCHANGED <<writer, db_listings>>
          ELSE \E o \in ListingOutcomes(s, Row(r)) :
                 IF o = "ok"
                 THEN /\ session' = [session EXCEPT ![s] =
                            [ss EXCEPT !.listings = @ (+) SetToBag({Row(r)}),
                                       !.success_count = @ + 1,
                                       !.inserted = @ \cup {Row(r)},
                                       !.last = o]]
                      /\ writer' = s
                      /\ db_listings' = FlushedTo(db_listings, Row(r))
                 ELSE /\ session' = [session EXCEPT ![s] =
                            [Rollback(ss) EXCEPT !.last = o]]
                      /\ writer' = ReleasedBy(s)
                      /\ db_listings' = db_listings
    /\ UNCHANGED <<db_companies, repeatVars, calls, stores, notStore>>

\* functions.py:91-198   the call is interrupted before its commit by
\* something that is no Exception (KeyboardInterrupt, the end of the
\* process): the finally block closes the session (197-198), or the
\* process is gone; either way the open transaction is discarded
Interrupt(s) ==
    /\ session[s].pc \in {"loop", "create_company", "listing"}
    /\ session' = [session EXCEPT ![s] =
          [Rollback(@) EXCEPT !.pc = "done", !.result = "interrupted",
                              !.job_data = <<>>]]
    /\ writer' = ReleasedBy(s)
    /\ UNCHANGED <<db_listings, db_companies, repeatVars, calls, stores,
                   notStore>>

\* functions.py:191-198   commit and return; a commit that raises is rolled
\* back and reported as (False, ...)
Commit(s) ==
    /\ session[s].pc = "loop"
    /\ session[s].left = 0
    /\ \E o \in (IF db_faults THEN {"ok", "error"} ELSE {"ok"}) :
         IF o = "ok"
         THEN /\ db_listings' = db_listings (+) session[s].listings
              /\ db_companies' = db_companies \cup session[s].companies
              /\ session' = [session EXCEPT ![s] =
                    [Rollback(@) EXCEPT !.pc = "done", !.result = "True",
                        !.committed = BagCardinality(session[s].listings)]]
         ELSE /\ UNCHANGED <<db_listings, db_companies>>
              /\ session' = [session EXCEPT ![s] =
                    [Rollback(@) EXCEPT !.pc = "done", !.result = "False"]]
    /\ writer' = ReleasedBy(s)
    /\ UNCHANGED <<repeatVars, calls, stores, notStore>>

\* no detail phase is in progress
DetailIdle ==
    /\ job_summaries_full = [t \in Jobs |-> Summary(t)]
    /\ scraperKind = "workday"
    /\ timesOut = {}
    /\ show_loading_bar = FALSE
    /\ to_csv = FALSE
    /\ sem = JOB_DETAIL_CONCURRENCY
    /\ task = [t \in Jobs |-> InitTask]
    /\ phase = "idle"
    /\ all_job_data = <<>>
    /\ handed = <<>>
    /\ job_data_list = <<>>

(*************************************************************************)
(* The detail phase of one board.                                        *)
(*************************************************************************)
DetailInit ==
    /\ job_summaries_full = [t \in Jobs |-> Summary(t)]
    /\ scraperKind \in ScraperKinds
    /\ timesOut \in {{}, {1}}
    /\ show_loading_bar \in BOOLEAN
    /\ to_csv = FALSE
    /\ sem = JOB_DETAIL_CONCURRENCY
    /\ task = [t \in Jobs |-> InitTask]
    /\ phase = "fetching"
    /\ all_job_data = <<>>
    /\ handed = <<>>
    /\ job_data_list = <<>>
    /\ LlmIdle
    /\ ParserIdle
    /\ CrawlIdle
    /\ ScrollIdle
    /\ FleetIdle
    /\ LocIdle
    /\ StoreIdle

DetailNext ==
    \/ \E t \in Jobs : Acquire(t)
    \/ \E t \in Jobs : NewContext(t)
    \/ \E t \in Jobs : NewPage(t)
    \/ \E t \in Jobs : FetchJobDetails(t)
    \/ \E t \in Jobs : Backoff(t)
    \/ \E t \in Jobs : PageClose(t)
    \/ \E t \in Jobs : ContextClose(t)
    \/ CancelAll
    \/ Collect
    \/ FilterAndSave

DetailSpec == DetailInit /\ [][DetailNext]_vars

(*************************************************************************)
(* Properties of the detail phase.                                       *)
(*************************************************************************)
\* the contexts that are open: new_context has returned them and close
\* has not been called on them
OpenContexts == {t \in Jobs : task[t].context = "open"}

\* the URLs of the records handed to the store adapter
HandedUrls ==
    {handed[i][j].url : <<i, j>> \in
        {<<i, j>> \in (DOMAIN handed) \X (1..NumJobs) : j \in DOMAIN handed[i]}}

\* the task gave up after errors that are not target-closed
Exhausted(tk) == tk.exc = "error" /\ tk.after = "return_none"

\* C2: with the Workday scraper, a summary whose detail page times out on
\* every visit is tried 3 times and then dropped: its task returns None at
\* the third attempt and no record with its URL is handed to the store.
C2_TimedOutUrlDropped ==
    scraperKind = "workday" =>
        \A t \in timesOut :
            /\ (task[t].pc = "done" /\ task[t].after = "return"
                    => task[t].retval = <<>>)
            /\ (task[t].pc = "done" /\ task[t].after = "return_none"
                /\ task[t].exc = "error" => task[t].attempt = attempts - 1)
            /\ t \notin HandedUrls

\* C3: at every moment the number of open browser contexts of the detail
\* phase is at most JOB_DETAIL_CONCURRENCY, however many jobs there are and
\* whichever of them fail and retry.
C3_OpenContextsBounded ==
    Cardinality(OpenContexts) <= JOB_DETAIL_CONCURRENCY

\* the limit binds: as many contexts are open as allowed while another job
\* waits for the semaphore and one of the open ones is in a retry
C3_Witness ==
    /\ Cardinality(OpenContexts) = JOB_DETAIL_CONCURRENCY
    /\ \E t \in Jobs : task[t].pc = "queued"
    /\ \E t \in OpenContexts : task[t].attempt > 0

\* C4: a task that has finished, on whatever path (return, error, retry
\* exhaustion, cancellation, failure of page.close), has closed every page
\* and context it opened.
C4_ClosedOnEveryExit ==
    \A t \in Jobs :
        task[t].pc = "done" => task[t].context # "open" /\ task[t].page # "open"

\* position of the coroutine within its remaining work
StageRank(pc) ==
    CASE pc = "new_context" -> 6
      [] pc = "new_page" -> 5
      [] pc = "fetch" -> 4
      [] pc = "backoff" -> 3
      [] pc = "page_close" -> 2
      [] pc = "context_close" -> 1
      [] OTHER -> 0

\* a bound on the steps a task has left
Rank(tk) ==
    IF tk.pc = "done" THEN 0
    ELSE IF tk.pc = "queued" THEN 7 * attempts + 1
    ELSE 7 * (attempts - 1 - tk.attempt) + StageRank(tk.pc)

C9_Attempts ==
    \A t \in Jobs :
        LET tk == task[t] IN
        /\ tk.attempt \in 0..(attempts - 1)
        /\ (tk.pc = "new_context" => tk.context # "open" /\ tk.page # "open")
        /\ (Exhausted(tk) => tk.attempt = attempts - 1)
        /\ (tk.pc = "done" /\ tk.exc = "error"
                => Exhausted(tk) /\ tk.retval = <<>>)

\* a context is opened only by the new_context call of an attempt, and an
\* attempt starts only when the task starts or the previous attempt is over
\* and has closed its context
C9_OneContextPerAttempt ==
    \A t \in Jobs :
        /\ (task'[t].context = "open" /\ task[t].context # "open"
                => /\ task[t].pc = "new_context"
                   /\ task'[t].pc = "new_page"
                   /\ task'[t].attempt = task[t].attempt)
        /\ (task'[t].pc = "new_context" /\ task[t].pc # "new_context"
                => \/ task[t].pc = "queued" /\ task'[t].attempt = 0
                   \/ /\ task[t].pc \in {"backoff", "page_close", "context_close"}
                      /\ task'[t].attempt = task[t].attempt + 1
                      /\ task'[t].context # "open")
        /\ (task'[t].attempt # task[t].attempt
                => task'[t].pc = "new_context")

C9_Terminates ==
    \A t \in Jobs : task'[t] # task[t] => Rank(task'[t]) < Rank(task[t])

\* C9: a detail task makes at most 3 attempts, one after the other, each
\* opening one context (none if new_context itself raises) after the
\* previous one was closed; a task whose attempts all fail with an error
\* other than target-closed gives up in its third attempt, having called
\* new_context exactly 3 times, and returns None; there is never a fourth
\* attempt, and every step of a task strictly lowers a natural-number rank,
\* so that every task terminates.
C9_ThreeAttemptsThenNone ==
    /\ []C9_Attempts
    /\ [][C9_OneContextPerAttempt]_vars
    /\ [][C9_Terminates]_vars

\* a task whose third attempt failed has returned None, while another is
\* in its third attempt with the context of that attempt open
C9_Witness ==
    /\ \E t \in Jobs :
        /\ task[t].pc = "done" /\ Exhausted(task[t])
        /\ task[t].attempt = attempts - 1 /\ task[t].retval = <<>>
    /\ \E t \in Jobs :
        /\ task[t].pc = "fetch" /\ task[t].attempt = attempts - 1
        /\ task[t].context = "open"

C10_NoRetry ==
    \A t \in Jobs :
        LET tk == task[t] IN
        tk.exc = "target_closed" =>
            /\ tk.pc \in {"page_close", "context_close", "done"}
            /\ tk.after = "return_none"
            /\ (tk.pc = "done" => tk.retval = <<>>)

C10_NoFurtherAttempt ==
    \A t \in Jobs :
        task[t].exc = "target_closed" =>
            /\ task'[t].attempt = task[t].attempt
            /\ task'[t].pc \notin {"backoff", "new_context", "new_page", "fetch"}
            /\ (task'[t].context = "open" => task[t].context = "open")

\* C10: when an attempt of a detail task fails with a target-closed error
\* (the page, context or browser has been closed), the task goes to its
\* finally block and returns None, with no backoff and no further attempt,
\* whichever attempt it was.
C10_TargetClosedReturnsNone ==
    []C10_NoRetry /\ [][C10_NoFurtherAttempt]_vars

\* a task that returned None on a target-closed error in its first attempt,
\* and another that did so in a later attempt
C10_Witness ==
    /\ \E t \in Jobs :
        /\ task[t].pc = "done" /\ task[t].exc = "target_closed"
        /\ task[t].attempt = 0
    /\ \E t \in Jobs :
        /\ task[t].pc = "done" /\ task[t].exc = "target_closed"
        /\ task[t].attempt > 0

\* the tasks that returned a merged record
Succeeded == {t \in Jobs : task[t].pc = "done" /\ task[t].after = "return"}

\* C11: a detail task that returns None does not abort the board: when
\* process_job_details_parallel returns, every task is over and the list
\* holds exactly the merged record of each task that succeeded, in the
\* gather mode (in task order) and in the as_completed mode.
C11_FailedTaskDoesNotAbort ==
    phase = "collected" =>
        /\ \A t \in Jobs : task[t].pc = "done"
        /\ Len(all_job_data) = Cardinality(Succeeded)
        /\ {all_job_data[i] : i \in DOMAIN all_job_data}
              = {task[t].retval[1] : t \in Succeeded}
        /\ (~show_loading_bar =>
              \A i, j \in DOMAIN all_job_data :
                  i < j => all_job_data[i].url < all_job_data[j].url)

\* the first task gave up after 3 failed attempts, a later one succeeded;
\* gather mode
C11_Witness ==
    /\ phase = "collected"
    /\ ~show_loading_bar
    /\ \E t \in Jobs : Exhausted(task[t]) /\ (t + 1) \in Succeeded
    /\ all_job_data # <<>>

(*************************************************************************)
(* filter_job_data on its own: scraper() from the call of the filter     *)
(* (main.py:134) on, for every list of at most MaxJobs records.          *)
(*************************************************************************)
\* the records a scrape can produce for the URLs of the board
JobRecords ==
    [detail_url : Jobs, date_posted_raw : DateTexts, url : Jobs,
     description : {"text"}]


FilterInit ==
    /\ job_summaries_full = [t \in Jobs |-> Summary(t)]
    /\ scraperKind = "workday"
    /\ timesOut = {}
    /\ show_loading_bar = FALSE
    /\ to_csv \in BOOLEAN
    /\ sem = JOB_DETAIL_CONCURRENCY
    /\ task = [t \in Jobs |-> InitTask]
    /\ phase = "collected"
    /\ all_job_data \in SeqsUpTo({r \in JobRecords : r.detail_url = r.url}, MaxJobs)
    /\ handed = <<>>
    /\ job_data_list = <<>>
    /\ LlmIdle
    /\ ParserIdle
    /\ CrawlIdle
    /\ ScrollIdle
    /\ FleetIdle
    /\ LocIdle
    /\ StoreIdle

FilterNext == FilterAndSave

FilterSpec == FilterInit /\ [][FilterNext]_vars

\* the positions of the list that hold the first record of their URL
FirstOccurrences(list) ==
    {i \in DOMAIN list : \A j \in 1..(i - 1) : list[j].url # list[i].url}

\* the k-th smallest element of a set of positions
KthOf(S, k) == CHOOSE i \in S : Cardinality({j \in S : j <= i}) = k

\* list restricted to the positions S, in the order of the list
Restricted(list, S) == [k \in 1..Cardinality(S) |-> list[KthOf(S, k)]]

\* two characters that differ at most in letter case
SameLetter(a, b) == Lower(<<a>>) = Lower(<<b>>)

\* the text holds "posted 30+ days ago" in some letter case
SaysStale(text) ==
    \E i \in 0..(Len(text) - Len(StalePhrase)) :
        \A k \in 1..Len(StalePhrase) : SameLetter(text[i + k], StalePhrase[k])

\* C7 as stated: the filter returns exactly one record per distinct URL of
\* its input, the first of each URL, in the order of first occurrence.
C7_OnePerUrl ==
    phase = "saved" =>
        all_job_data = Restricted(job_data_list, FirstOccurrences(job_data_list))

\* C7 amended: the filter returns, in the order of first occurrence, the
\* first record of each distinct URL unless that record says "posted 30+
\* days ago"; so it returns exactly one record per distinct URL when no
\* first record is stale, and fewer otherwise.
C7_OnePerUrlUnlessStale ==
    phase = "saved" =>
        /\ all_job_data =
             Restricted(job_data_list,
                 {i \in FirstOccurrences(job_data_list) :
                     ~SaysStale(job_data_list[i].date_posted_raw)})
        /\ ((\A i \in FirstOccurrences(job_data_list) :
                 ~SaysStale(job_data_list[i].date_posted_raw))
             => Len(all_job_data) =
                  Cardinality({job_data_list[i].url : i \in DOMAIN job_data_list}))

\* a list with a repeated URL whose first record is stale and whose second
\* is not, and another URL that is kept
C7_Witness ==
    /\ phase = "saved"
    /\ Len(all_job_data) = 1
    /\ \E i, j, k \in DOMAIN job_data_list :
        /\ i < j
        /\ job_data_list[i].url = job_data_list[j].url
        /\ i \in FirstOccurrences(job_data_list)
        /\ SaysStale(job_data_list[i].date_posted_raw)
        /\ ~SaysStale(job_data_list[j].date_posted_raw)
        /\ job_data_list[k].url # job_data_list[i].url

\* C35 (as stated): every URL that has a record that is not stale in the
\* input of the filter has a record in its output.
C35_FreshUrlKept ==
    phase = "saved" =>
        \A i \in DOMAIN job_data_list :
            ~SaysStale(job_data_list[i].date_posted_raw) =>
                \E k \in DOMAIN all_job_data :
                    all_job_data[k].url = job_data_list[i].url

\* C8: no record whose posting date says "posted 30+ days ago", in whatever
\* letter case, is in the list the filter returns or in a batch handed to
\* the store.
C8_NoStaleRecord ==
    phase = "saved" =>
        /\ \A i \in DOMAIN all_job_data :
               ~SaysStale(all_job_data[i].date_posted_raw)
        /\ \A b \in DOMAIN handed : \A i \in DOMAIN handed[b] :
               ~SaysStale(handed[b][i].date_posted_raw)

\* an input with the phrase in upper case and in title case, and a
\* non-empty batch handed to the store
C8_Witness ==
    /\ phase = "saved"
    /\ handed # <<>>
    /\ \E i, j \in DOMAIN job_data_list :
        /\ job_data_list[i].date_posted_raw = TextStaleUpper
        /\ job_data_list[j].date_posted_raw = TextStaleTitle

(*************************************************************************)
(* One call of _make_llm_request against an arbitrary endpoint.          *)
(*************************************************************************)
LlmInit ==
    /\ api_key \in BOOLEAN
    /\ llm_pc = "start"
    /\ attempt = 0
    /\ backoff = 1
    /\ requests = 0
    /\ response_text = "none"
    /\ llm_result = <<>>
    /\ DetailIdle
    /\ ParserIdle
    /\ CrawlIdle
    /\ ScrollIdle
    /\ FleetIdle
    /\ LocIdle
    /\ StoreIdle

LlmNext ==
    \/ NoApiKey
    \/ EnterLoop
    \/ Request
    \/ Sleep
    \/ MaxRetriesExceeded

LlmSpec == LlmInit /\ [][LlmNext]_vars

\* C5: a call of _make_llm_request sends at most 3 requests to the
\* endpoint, whatever the endpoint does (exception, empty response,
\* malformed JSON, valid JSON without a required field).
C5_AtMostThreeRequests == requests <= max_retries

(*************************************************************************)
(* Callers of update_job_listings on one store.                          *)
(*************************************************************************)
StoreInit ==
    /\ StoreIdle
    /\ DetailIdle
    /\ LlmIdle
    /\ ParserIdle
    /\ CrawlIdle
    /\ ScrollIdle
    /\ FleetIdle
    /\ LocIdle

StoreNext ==
    \/ \E s \in Sessions : Call(s) /\ UNCHANGED <<calls, stores>>
    \/ \E s \in Sessions : NextRecord(s)
    \/ \E s \in Sessions : CreateCompany(s)
    \/ \E s \in Sessions : InsertListing(s)
    \/ \E s \in Sessions : Commit(s)
    \/ \E s \in Sessions : Interrupt(s)

StoreSpec == StoreInit /\ [][StoreNext]_vars

C6_UniqueListings ==
    /\ \A x \in BagToSet(db_listings) : CopiesIn(x, db_listings) = 1
    /\ \A x, y \in BagToSet(db_listings) : x # y => x.link # y.link

\* every link is persisted, and a caller has just had a listing rejected as
\* a duplicate
C6_Witness ==
    /\ {x.link : x \in BagToSet(db_listings)} = Links
    /\ \E s \in Sessions : session[s].last = "IntegrityError"

ConsistentStores ==
    {S \in SUBSET [title : Titles, company : Companies, link : Links] :
        \A x, y \in S : x # y => x.link # y.link}

RepeatInit ==
    /\ \E S \in ConsistentStores :
        /\ db_listings = SetToBag(S)
        /\ db_companies \in {C \in SUBSET Companies : {x.company : x \in S} \subseteq C}
    /\ writer = 0
    /\ session = [s \in Sessions |-> IdleSession]
    /\ db_faults = FALSE
    /\ batch \in SeqsUpTo({r \in JobInputs : Valid(r)}, MaxBatch) \ {<<>>}
    /\ calls = 0
    /\ stores = <<>>
    /\ DetailIdle
    /\ LlmIdle
    /\ ParserIdle
    /\ CrawlIdle
    /\ ScrollIdle
    /\ FleetIdle
    /\ LocIdle

\* the caller calls update_job_listings(batch)
RepeatCall ==
    /\ calls < 2
    /\ Call(1)
    /\ session'[1].left = Len(batch)
    /\ calls' = calls + 1
    /\ stores' = Append(stores, <<db_listings, db_companies>>)

\* the loop takes the records of the batch in order
RepeatNextRecord ==
    /\ NextRecord(1)
    /\ session'[1].job_data = <<batch[Len(batch) - session[1].left + 1]>>

RepeatNext ==
    \/ RepeatCall
    \/ RepeatNextRecord
    \/ CreateCompany(1)
    \/ InsertListing(1)
    \/ Commit(1)

RepeatSpec == RepeatInit /\ [][RepeatNext]_vars

\* C13: when the second of two successive calls with the same batch has
\* returned, the store equals the store the first call left: the second
\* call adds no listing and changes none.
C13_SecondCallChangesNothing ==
    calls = 2 /\ session[1].pc = "done" =>
        <<db_listings, db_companies>> = stores[2]

\* the first call stored listings of a batch of 2 records, the second call
\* has returned after its inserts were rejected as duplicates
C13_Witness ==
    /\ calls = 2 /\ session[1].pc = "done"
    /\ Len(batch) >= 2
    /\ BagCardinality(stores[2][1]) > BagCardinality(stores[1][1])
    /\ session[1].last = "IntegrityError"


(*************************************************************************)
(* The location enrichment of one crawl: prepare_batch_cache, then       *)
(* enhance_job_with_cached_data for each summary in turn.                *)
(*************************************************************************)
\* parser.py (workday)   re.sub(r'^\s*locations\s*:?\s*', '', s, I).strip()
WorkdayParseLocation(location_str_raw) ==
    LET n == Len(LocationsPrefix)
        a == LStrip(location_str_raw)
    IN  IF location_str_raw = <<>> THEN <<>>
        ELSE IF Len(a) >= n /\ Lower(SubSeq(a, 1, n)) = LocationsPrefix
        THEN LET b == LStrip(SubSeq(a, n + 1, Len(a)))
                 c == IF b # <<>> /\ Head(b) = ":" THEN Tail(b) ELSE b
             IN  Strip(c)
        ELSE Strip(location_str_raw)

\* crawler.py:226-234   the location fields of a job summary
SummaryRecords ==
    {[location_raw |-> l, location_parsed |-> WorkdayParseLocation(l)] :
        l \in {LocOslo, LocOsloLower, LocOsloSpace, LocPrefixed, LocBlank,
               LocEmpty, LocNA}}

\* the answers that are not returned to the caller of _make_llm_request
FailingBehaviours == {b \in Behaviours : ~ReturnsParsed(b)}

\* an endpoint that always behaves the same way, one that answers, and one
\* that can do anything
EndpointModes ==
    {{b} : b \in FailingBehaviours} \cup {{"dict_ok", "list_ok"}, Behaviours}

EnhanceInit ==
    /\ enabled \in BOOLEAN
    /\ endpoint \in EndpointModes
    /\ api_key \in BOOLEAN
    /\ summaries \in SeqsUpTo(SummaryRecords, MaxSummaries)
    /\ cache = <<>>
    /\ location_cache = <<>>
    /\ coro = [c \in Callers |-> IdleCoro]
    /\ batch_calls = 0
    /\ single_calls = 0
    /\ parse_calls = 0
    /\ prepared = FALSE
    /\ enhanced = <<>>
    /\ last = <<>>
    /\ llm_pc = "idle" /\ attempt = 0 /\ backoff = 1 /\ requests = 0
    /\ response_text = "none" /\ llm_result = <<>>
    /\ DetailIdle
    /\ CrawlIdle
    /\ ScrollIdle
    /\ FleetIdle
    /\ LocIdle
    /\ StoreIdle

EnhanceNext ==
    \/ BeginPrepare
    \/ BeginEnhance
    \/ Response(1)

EnhanceSpec == EnhanceInit /\ [][EnhanceNext]_vars

\* The crawls whose LLM is disabled or whose every LLM attempt fails.  The
\* event loop runs a coroutine that can run (weak fairness).
DegradedInit ==
    /\ EnhanceInit
    /\ ~enabled \/ endpoint \subseteq FailingBehaviours

DegradedSpec ==
    /\ DegradedInit
    /\ [][EnhanceNext]_vars
    /\ WF_vars(BeginPrepare)
    /\ WF_vars(BeginEnhance)
    /\ WF_vars(Response(1))

\* the record carries a location_parsed_intelligent object with the 4 keys
HasParsedLocation(job_data) ==
    /\ "location_parsed_intelligent" \in DOMAIN job_data
    /\ HasRequiredKeys(job_data.location_parsed_intelligent)

\* every record enhance_job_with_cached_data has returned carries the object
EnhancedRecordsHaveObject ==
    \A i \in 1..Len(enhanced) : HasParsedLocation(enhanced[i])

\* C14: when the LLM is disabled or every LLM attempt fails, every record
\* passed to enhance_job_with_cached_data gets a location_parsed_intelligent
\* object with the keys city, country, region and confidence: the call
\* returns the record with the object.
C14_EveryRecordGetsObject ==
    <>(/\ Len(enhanced) = Len(summaries)
       /\ EnhancedRecordsHaveObject)

\* the location of the summary is one prepare_batch_cache sends
Sent(job_data) ==
    LET l == EnhanceLocation(job_data) IN
    l # <<>> /\ l # LocNA /\ Strip(l) # <<>>

\* C16: with intelligent parsing enabled, one crawl issues at most one batch
\* LLM call, and once prepare_batch_cache has returned, enhancing a summary
\* whose location it sent returns at once with the cached value and issues
\* no LLM call.
C16_OneBatchCallThenCache ==
    /\ [](batch_calls <= 1)
    /\ [][(/\ enabled /\ prepared
           /\ coro[1].pc = "idle"
           /\ Len(enhanced) < Len(summaries)
           /\ Sent(summaries[Len(enhanced) + 1]))
          => LET l == Strip(EnhanceLocation(summaries[Len(enhanced) + 1])) IN
             /\ single_calls' = single_calls
             /\ batch_calls' = batch_calls
             /\ l \in DOMAIN location_cache
             /\ enhanced' = Append(enhanced,
                    WithParsed(summaries[Len(enhanced) + 1], location_cache[l]))]_vars

\* two summaries with locations were enhanced after one batch call that the
\* endpoint answered, with no further LLM call
C16_Witness ==
    /\ enabled /\ api_key /\ prepared
    /\ batch_calls = 1 /\ single_calls = 0
    /\ Len(summaries) = 2 /\ Len(enhanced) = 2
    /\ Sent(summaries[1]) /\ Sent(summaries[2])
    /\ summaries[1] # summaries[2]
    /\ enhanced[1].location_parsed_intelligent = HighOslo

(*************************************************************************)
(* One caller of the parser, one call at a time.                         *)
(*************************************************************************)
ParserLocs == {LocOslo, LocOsloLower, LocParis}

BatchInit ==
    /\ enabled = TRUE
    /\ endpoint = Behaviours
    /\ api_key = TRUE
    /\ summaries = <<>>
    /\ cache = <<>>
    /\ location_cache = <<>>
    /\ coro = [c \in Callers |-> IdleCoro]
    /\ batch_calls = 0
    /\ single_calls = 0
    /\ parse_calls = 0
    /\ prepared = FALSE
    /\ enhanced = <<>>
    /\ last = <<>>
    /\ llm_pc = "idle" /\ attempt = 0 /\ backoff = 1 /\ requests = 0
    /\ response_text = "none" /\ llm_result = <<>>
    /\ DetailIdle
    /\ CrawlIdle
    /\ ScrollIdle
    /\ FleetIdle
    /\ LocIdle
    /\ StoreIdle

\* the caller is done with the value its call returned and is free to make
\* the next call
TakeResult ==
    /\ last # <<>>
    /\ last' = <<>>
    /\ UNCHANGED <<enabled, endpoint, cache, location_cache, coro, batch_calls,
                   single_calls, parse_calls, summaries, prepared, enhanced,
                   notParser>>

BatchNext ==
    \/ \E locations \in SeqsUpTo(ParserLocs, MaxLocations) : CallBatch(locations)
    \/ \E location \in ParserLocs : CallSingle(location)
    \/ TakeResult

BatchSpec == BatchInit /\ [][BatchNext]_vars

\* the last call was parse_locations_batch
LastBatch == last # <<>> /\ last[1].op = "parse_locations_batch"

\* the position of input i among the inputs that missed the cache
MissRank(cache_results, i) ==
    Cardinality({j \in 1..i : j \notin DOMAIN cache_results})

\* C17: parse_locations_batch returns a list as long as its input; element
\* i is the cached value when input i hit the cache, otherwise the item of
\* the LLM response at the position of input i among the misses, if that
\* item has the four fields and a confidence of at least 0.5, or else the
\* fallback of input i; an empty input returns an empty list with no LLM
\* call.
C17_BatchResultInInputOrder ==
    LastBatch =>
        LET arg == last[1].arg
            result == last[1].result
            hits == DOMAIN last[1].cache_results
            items == IF last[1].reply = <<>> THEN <<>>
                     ELSE ResponseItems(last[1].reply[1])
        IN  /\ Len(result) = Len(arg)
            /\ arg = <<>> => result = <<>> /\ last[1].reply = <<>>
            /\ \A i \in 1..Len(arg) :
                IF i \in hits
                THEN result[i] = cache[_get_cache_key(arg[i])]
                ELSE \/ result[i] = _parse_location_fallback(arg[i])
                     \/ LET j == MissRank(last[1].cache_results, i) IN
                        /\ j <= Len(items)
                        /\ result[i] = items[j]
                        /\ HasRequiredKeys(items[j])
                        /\ IsNumber(items[j].confidence)
                        /\ items[j].confidence[1] >= 5

\* a call of two inputs that both missed the cache; the LLM answered with
\* two different accepted items, returned in the order of the answer
C17_Witness ==
    /\ LastBatch
    /\ Len(last[1].arg) = 2
    /\ DOMAIN last[1].cache_results = {}
    /\ last[1].result = <<HighParis, HighOslo>>

\* a call with a cache hit before a miss, answered with too few items
C17_WitnessHit ==
    /\ LastBatch
    /\ Len(last[1].arg) = 2
    /\ DOMAIN last[1].cache_results = {1}
    /\ last[1].reply = <<ListReply(<<>>)>>

\* v is a result of the LLM with a confidence of at least 0.5
AcceptedLlmResult(v) ==
    /\ IsDict(v)
    /\ HasRequiredKeys(v)
    /\ IsNumber(v.confidence)
    /\ v.confidence[1] >= 5

\* v is the fallback {city = parse_location(raw), Unknown, Unknown, 0.1} of
\* a raw location whose cache key is k
FallbackUnder(v, k) ==
    \E raw \in LocStrings :
        /\ _get_cache_key(raw) = k
        /\ v = [city |-> parse_location(raw), country |-> "Unknown",
                region |-> "Unknown", confidence |-> <<1>>]

\* C36: every value in the cache of the parser, and every value that
\* parse_location_single or parse_locations_batch returns, is an LLM result
\* with a confidence of at least 0.5 or the fallback of a raw location with
\* that cache key; an LLM result with a confidence below 0.5 is neither
\* cached nor returned.
C36_CachedAcceptedOrFallback ==
    /\ \A k \in DOMAIN cache :
            AcceptedLlmResult(cache[k]) \/ FallbackUnder(cache[k], k)
    /\ last # <<>> =>
            IF last[1].op = "parse_location_single"
            THEN \/ AcceptedLlmResult(last[1].result)
                 \/ FallbackUnder(last[1].result, _get_cache_key(last[1].arg))
            ELSE \A i \in 1..Len(last[1].arg) :
                    \/ AcceptedLlmResult(last[1].result[i])
                    \/ FallbackUnder(last[1].result[i],
                                     _get_cache_key(last[1].arg[i]))

\* a batch call whose answer held a low-confidence item and an accepted
\* one: the first was replaced by the fallback, both were cached; and a
\* single call answered with a low-confidence item
C36_Witness ==
    /\ LastBatch
    /\ last[1].arg = <<LocOslo, LocParis>>
    /\ last[1].reply = <<ListReply(<<LowItem, HighParis>>)>>
    /\ cache[_get_cache_key(LocOslo)] = _parse_location_fallback(LocOslo)
    /\ cache[_get_cache_key(LocParis)] = HighParis

(*************************************************************************)
(* Concurrent callers of one IntelligentParser.                          *)
(*************************************************************************)
ParserInit ==
    /\ enabled = TRUE
    /\ endpoint \in {{"dict_ok", "list_ok"}, Behaviours}
    /\ api_key \in BOOLEAN
    /\ summaries = <<>>
    /\ cache = <<>>
    /\ location_cache = <<>>
    /\ coro = [c \in Callers |-> IdleCoro]
    /\ batch_calls = 0
    /\ single_calls = 0
    /\ parse_calls = 0
    /\ prepared = FALSE
    /\ enhanced = <<>>
    /\ last = <<>>
    /\ llm_pc = "idle" /\ attempt = 0 /\ backoff = 1 /\ requests = 0
    /\ response_text = "none" /\ llm_result = <<>>
    /\ DetailIdle
    /\ CrawlIdle
    /\ ScrollIdle
    /\ FleetIdle
    /\ LocIdle
    /\ StoreIdle

ParserNext ==
    \/ \E c \in Callers, location \in ParserLocs : BeginSingle(c, location)
    \/ \E c \in Callers, locations \in SeqsUpTo(ParserLocs, MaxLocations) :
            BeginBatch(c, locations)
    \/ \E c \in Callers : Response(c)

ParserSpec == ParserInit /\ [][ParserNext]_vars

\* C18: the cache of the parser is written once per key: a key that holds
\* a value keeps that value, whatever calls of parse_location_single and
\* parse_locations_batch run, concurrently or not.
C18_WrittenOncePerKey ==
    [][\A k \in DOMAIN cache : k \in DOMAIN cache' /\ cache'[k] = cache[k]]_vars


(*************************************************************************)
(* The pagination of one board.                                          *)
(*************************************************************************)
CrawlInit ==
    /\ crawl_pc = "start"
    /\ page_count = 0
    /\ max_pages \in 0..MaxPages
    /\ all_job_summaries = <<>>
    /\ crawl_error = "none"
    /\ pages = <<>>
    /\ next_button = "none"
    /\ ScrollIdle
    /\ FleetIdle
    /\ LocIdle
    /\ DetailIdle
    /\ LlmIdle
    /\ ParserIdle
    /\ StoreIdle

CrawlNext ==
    \/ WaitForList
    \/ CheckPagination
    \/ ExtractPage
    \/ NavigateNext
    \/ WaitForContent
    \/ ScrollAndExtract

CrawlSpec == CrawlInit /\ [][CrawlNext]_vars

\* the summaries the extractions of the pages p.. returned, in page order
RECURSIVE CollectedFrom(_)
CollectedFrom(p) ==
    IF p > Len(pages) THEN <<>>
    ELSE _extract_job_summaries(p, pages[p]) \o CollectedFrom(p + 1)

C19_WitnessTotalFailure ==
    /\ crawl_pc = "returned"
    /\ crawl_error = "PlaywrightTimeoutError"
    /\ pages = <<>>
    /\ page_count = 0
    /\ all_job_summaries = <<>>

\* the summaries as a set
ReturnedSummaries == {all_job_summaries[k] : k \in DOMAIN all_job_summaries}

\* C20: an item of a page that raises while it is read does not cost the
\* page its other items: every readable item of every page extracted, before
\* or after the bad item, has its summary in the list returned.
C20_OtherItemsReturned ==
    crawl_pc = "returned" =>
        \A p \in DOMAIN pages : \A i \in DOMAIN pages[p] :
            pages[p][i] = "ok" => <<p, i>> \in ReturnedSummaries


(*************************************************************************)
(* The orchestrator and the enrichment (main.py:108-144).                *)
(*************************************************************************)
\* the records of the batches handed to the store adapter
HandedRecords ==
    {handed[i][j] : <<i, j>> \in
        {<<i, j>> \in (DOMAIN handed) \X (1..NumJobs) : j \in DOMAIN handed[i]}}

\* C15: the orchestrator runs the batch location enrichment before the
\* detail tasks, so every record it hands to the store adapter carries a
\* location_parsed_intelligent object.
C15_HandedRecordsEnriched ==
    \A r \in HandedRecords : "location_parsed_intelligent" \in DOMAIN r

\* C21: with pagination and max_pages = M >= 1 the summaries of at most M
\* pages are extracted, the list is the concatenation of the summaries of
\* the pages in pagination order, and once the button of the next page is
\* found absent or disabled the function has returned without extracting
\* another page.
C21_AtMostMaxPagesInOrder ==
    /\ (page_count > 0 /\ max_pages >= 1) =>
           /\ Len(pages) <= max_pages
           /\ all_job_summaries = CollectedFrom(1)
    /\ next_button \in {"absent", "disabled"} =>
           /\ crawl_pc = "returned"
           /\ Len(pages) = page_count

\* C38: with pagination and max_pages = M >= 1, once M pages have been
\* extracted the next-page button is not clicked again: the loop is never
\* in the wait that follows a click with M pages extracted.
C38_NoClickAfterMaxPages ==
    (max_pages >= 1 /\ Len(pages) >= max_pages) => crawl_pc # "wait"

\* max_pages = 1 on a board of two pages: page 1 was extracted, the next
\* page was opened and the limit ended the loop
C21_Witness ==
    /\ crawl_pc = "returned"
    /\ crawl_error = "none"
    /\ max_pages = 1
    /\ page_count = 2
    /\ next_button = "enabled"
    /\ pages = <<<<"ok", "ok">>>>
    /\ all_job_summaries = <<<<1, 1>>, <<1, 2>>>>

\* no limit: two pages were extracted in order, then the button was absent
C21_WitnessLastPage ==
    /\ crawl_pc = "returned"
    /\ max_pages = 0
    /\ next_button = "absent"
    /\ Len(pages) = 2
    /\ all_job_summaries = <<<<1, 1>>, <<2, 1>>>>

(*************************************************************************)
(* scroll_to_load_all_jobs, called from its two call sites.              *)
(*************************************************************************)
ScrollInit ==
    /\ scroll_pc = "start"
    /\ scroll_caller \in ScrollCallers
    /\ page_faults \in BOOLEAN
    /\ available \in 0..MaxAvailable
    /\ loaded = IF available = 0 THEN 0 ELSE 1
    /\ job_list_items_count = 0
    /\ scroll_attempts = 0
    /\ scroll_result = "none"
    /\ iterations = 0
    /\ last_growth = 0
    /\ extracted = <<>>
    /\ DetailIdle
    /\ LlmIdle
    /\ ParserIdle
    /\ StoreIdle
    /\ CrawlIdle
    /\ FleetIdle
    /\ LocIdle

ScrollNext ==
    \/ WaitForSelector
    \/ ScrollIteration
    \/ ExtractAfterScroll

ScrollSpec == ScrollInit /\ [][ScrollNext]_vars

\* C22: on a board without pagination controls the Workday scraper
\* exhausts the scroll before it extracts: for a list that holds more than
\* its first batch, when no page call fails for a reason of its own, the
\* scroll loop has run until stagnation (5 iterations without growth after
\* the last growth) and the items it counted are extracted.
C22_ScrollExhaustedBeforeExtract ==
    (/\ scroll_caller = "crawler"
     /\ ~page_faults
     /\ available >= 2
     /\ scroll_pc = "extracted") =>
        /\ scroll_result = "True"
        /\ iterations = last_growth + StagnationThreshold
        /\ extracted[1] >= job_list_items_count
        /\ extracted[1] >= 2

\* C23: the stagnation counter is the number of iterations since the last
\* one that saw the count grow; the loop goes on while it is below 5 and
\* ends, returning True, exactly at 5: after iteration g + 5 when the count
\* last grew at iteration g.
C23_StopsAfterFiveWithoutGrowth ==
    /\ scroll_attempts = iterations - last_growth
    /\ scroll_pc = "loop" => scroll_attempts < StagnationThreshold
    /\ scroll_result = "True" =>
           /\ scroll_attempts = StagnationThreshold
           /\ iterations = last_growth + StagnationThreshold

\* the count last grew at iteration 7 and the loop ended after iteration 12
C23_Witness ==
    /\ scroll_result = "True"
    /\ last_growth = 7
    /\ iterations = 12

\* C24: scroll_to_load_all_jobs performs at most 20 iterations in total,
\* however the item count evolves.
C24_AtMostTwentyIterations == iterations <= max_scroll_attempts
\* C28: a listing committed before a call of update_job_listings is in the
\* store, once and as the only row with its link, at every later moment of
\* the call and after it, whatever records the batch holds.
C28_CommittedListingsKept ==
    \A k \in DOMAIN stores :
        \A x \in BagToSet(stores[k][1]) :
            /\ CopiesIn(x, db_listings) = 1
            /\ \A y \in BagToSet(db_listings) : y.link = x.link => y = x

\* the call has returned after rejecting a record that has the link of a
\* listing committed before the call and another title
C28_Witness ==
    /\ calls >= 1
    /\ session[1].pc = "done"
    /\ session[1].last = "IntegrityError"
    /\ \E x \in BagToSet(stores[1][1]) :
         /\ BagIn(x, db_listings)
         /\ \E i \in DOMAIN batch :
              batch[i].url = x.link /\ batch[i].title # x.title
\* C32: the listings in the store change only in the step that ends a call
\* of update_job_listings with its commit, so each call commits at most
\* once, nothing of a batch is durable before that, and an interrupted
\* call leaves the store as it was.
C32_DurableOnlyAtFinalCommit ==
    [][db_listings' # db_listings =>
         \E s \in Sessions :
            /\ session[s].pc = "loop" /\ session[s].left = 0
            /\ session'[s].pc = "done" /\ session'[s].result = "True"
            /\ db_listings' = db_listings (+) session[s].listings
            /\ \A u \in Sessions \ {s} : session'[u] = session[u]]_vars

\* a call was interrupted after a listing had been flushed, and no listing
\* is in the store
C32_Witness ==
    \E s \in Sessions :
        /\ session[s].result = "interrupted"
        /\ session[s].inserted # {}
        /\ db_listings = EmptyBag
C34_RejectedRecordAddsNothing ==
    (/\ calls >= 1
     /\ session[1].pc = "done"
     /\ \A i \in DOMAIN batch : batch[i].job_board_url = "unknown")
    => <<db_listings, db_companies>> = stores[1]

(*************************************************************************)
(* Specification of the fleet.  Either run_scraper is called with the    *)
(* boards of platform_job_boards, or scraper() is called for one board.  *)
(*************************************************************************)
FleetInit ==
    /\ fleet_entry \in {"run_scraper", "scraper"}
    /\ boards \in SeqsUpTo(PlatformNames, MaxBoards)
    /\ fleet_entry = "scraper" => Len(boards) = 1
    /\ current = IF fleet_entry = "scraper" THEN 1 ELSE 0
    /\ fleet_pc = "running"
    /\ board_pc = IF fleet_entry = "scraper" THEN "create" ELSE "idle"
    /\ all_data = "[]"
    /\ io = {}
    /\ board_outcome = [i \in DOMAIN boards |-> NotStarted]
    /\ LocIdle
    /\ DetailIdle
    /\ LlmIdle
    /\ ParserIdle
    /\ StoreIdle
    /\ CrawlIdle
    /\ ScrollIdle

FleetNext ==
    \/ NextBoard
    \/ CreateScraper
    \/ StartPlaywright
    \/ Launch
    \/ Goto
    \/ ExtractSummaries
    \/ ProcessDetails
    \/ Save
    \/ CloseBrowser

FleetSpec == FleetInit /\ [][FleetNext]_vars

\* what the history io records of a board
IoKinds ==
    {"playwright", "browser", "goto", "page", "timeout", "extract", "store",
     "close", "stop"}

\* the calls of scraper() that have been made
Called == {i \in DOMAIN boards : i <= current /\ board_outcome[i].result # "skipped"}

\* C25: a call of scraper() with a platform that is not registered ends by
\* reporting a configuration error and returning [], and performs no I/O:
\* no Playwright start, no browser, no page, no store.
C25_UnregisteredReturnsEmpty ==
    \A i \in Called :
        ~Registered(Lower(boards[i])) =>
            /\ \A k \in IoKinds : <<i, k>> \notin io
            /\ board_outcome[i].result \in {"none", "[]"}
            /\ board_outcome[i].result = "[]" => board_outcome[i].log = "Configuration error"
            /\ (i < current \/ board_pc = "idle") => board_outcome[i].result = "[]"

C25_Witness ==
    /\ fleet_entry = "scraper"
    /\ boards = <<PlatLever>>
    /\ fleet_pc = "finished"
    /\ board_outcome[1] = [result |-> "[]", log |-> "Configuration error"]
    /\ io = {}

\* C26 (as stated): when run_scraper has ended, every board of the key it
\* crawls has been crawled or attempted.
C26_EveryBoardAttempted ==
    (fleet_entry = "run_scraper" /\ fleet_pc # "running") =>
        \A i \in DOMAIN boards : Crawls(boards[i]) => board_outcome[i].result # "none"

(*************************************************************************)
(* The detail phase for summaries that may repeat a URL: pagination can  *)
(* list the same posting twice, once with a stale date text.             *)
(*************************************************************************)
\* the lists of summaries: job 1 has URL 1 and is stale or not, job t has
\* URL 1 or URL t
SummaryLists ==
    {s \in [Jobs -> [detail_url : Jobs, date_posted_raw : {TextToday, TextStaleTitle}]] :
        /\ s[1].detail_url = 1
        /\ \A t \in Jobs : s[t].detail_url \in {1, t}
        /\ \A t \in Jobs : t > 1 => s[t].date_posted_raw = TextToday}

ProgressInit ==
    /\ job_summaries_full \in SummaryLists
    /\ scraperKind \in ScraperKinds
    /\ timesOut = {}
    /\ show_loading_bar \in BOOLEAN
    /\ to_csv = FALSE
    /\ sem = JOB_DETAIL_CONCURRENCY
    /\ task = [t \in Jobs |-> InitTask]
    /\ phase = "fetching"
    /\ all_job_data = <<>>
    /\ handed = <<>>
    /\ job_data_list = <<>>
    /\ LlmIdle
    /\ ParserIdle
    /\ CrawlIdle
    /\ ScrollIdle
    /\ FleetIdle
    /\ LocIdle
    /\ StoreIdle

ProgressSpec == ProgressInit /\ [][DetailNext]_vars

\* what scraper() hands to the store adapter when the tasks end as they
\* did and show_loading_bar is off (processing.py:275-284, main.py:134-144)
HandedWithoutProgress ==
    LET list == filter_job_data(GatherResults(NumJobs))
    IN {list[i] : i \in DOMAIN list}

\* C27 (as stated): the records handed to the store adapter are the ones
\* handed, for the same summaries and the same outcomes of the detail
\* tasks, when show_loading_bar is off.
C27_SameRecordsWithProgress ==
    phase = "saved" => HandedRecords = HandedWithoutProgress

(*************************************************************************)
(* One board from the call of extract_job_summaries to the store         *)
(* (main.py:108-148).                                                    *)
(*************************************************************************)
BoardInit ==
    /\ job_summaries_full = [t \in Jobs |-> Summary(t)]
    /\ scraperKind \in ScraperKinds
    /\ timesOut \in {{}, {1}}
    /\ show_loading_bar \in BOOLEAN
    /\ to_csv = FALSE
    /\ sem = JOB_DETAIL_CONCURRENCY
    /\ task = [t \in Jobs |-> InitTask]
    /\ phase = "paginating"
    /\ all_job_data = <<>>
    /\ handed = <<>>
    /\ job_data_list = <<>>
    /\ LlmIdle
    /\ ParserIdle
    /\ CrawlIdle
    /\ ScrollIdle
    /\ FleetIdle
    /\ LocIdle
    /\ StoreIdle

BoardNext ==
    \/ ExtractReturns
    \/ DetailNext

BoardSpec == BoardInit /\ [][BoardNext]_vars

\* detail task t is over and has no page or context left open
FinishedAndClosed(t) ==
    /\ task[t].pc = "done"
    /\ task[t].page # "open"
    /\ task[t].context # "open"

\* C30: within one board no detail task has started while pagination has
\* not returned, and from the return of the detail phase on, so whenever
\* the store adapter has been called, every detail task is over with its
\* page and its context closed.
C30_PhasesInOrder ==
    /\ phase \in {"paginating", "failed"} => \A t \in Jobs : task[t] = InitTask
    /\ (phase \in {"collected", "saved"} \/ handed # <<>>) =>
           \A t \in Jobs : FinishedAndClosed(t)

C30_Witness ==
    /\ phase = "saved"
    /\ handed # <<>>
    /\ Len(handed[1]) = NumJobs
    /\ show_loading_bar
    /\ \A t \in Jobs : task[t].after = "return" /\ FinishedAndClosed(t)

(*************************************************************************)
(* parse_location applied to a raw location text, and again to its own   *)
(* result: utils.py:21-37 ("common") and WorkdayParser.parse_location,   *)
(* platforms/workday/parser.py:83-101 ("workday").                       *)
(*************************************************************************)
LocationsLabel == <<"L","o","c","a","t","i","o","n","s">>

\* the pieces raw location texts are made of
Pieces == {<<" ">>, <<":">>, LocationsPrefix, LocationsLabel, LocOslo}

RECURSIVE Texts(_)
\* the texts of at most n pieces
Texts(n) ==
    IF n = 0 THEN {<<>>}
    ELSE LET shorter == Texts(n - 1)
         IN shorter \cup {s \o p : s \in shorter, p \in Pieces}

LocationParsers == {"common", "workday"}

Apply(fn, s) == IF fn = "common" THEN parse_location(s) ELSE WorkdayParseLocation(s)

LocInit ==
    /\ loc_fn \in LocationParsers
    /\ loc_raw \in Texts(MaxPieces)
    /\ loc_parsed = <<>>
    /\ DetailIdle
    /\ LlmIdle
    /\ ParserIdle
    /\ StoreIdle
    /\ CrawlIdle
    /\ ScrollIdle
    /\ FleetIdle

\* the function is applied to the raw text, then to its own result
ParseLocation ==
    /\ Len(loc_parsed) < 2
    /\ loc_parsed' =
         Append(loc_parsed,
                Apply(loc_fn, IF loc_parsed = <<>> THEN loc_raw ELSE loc_parsed[1]))
    /\ UNCHANGED <<loc_fn, loc_raw, notLoc>>

LocNext == ParseLocation

LocSpec == LocInit /\ [][LocNext]_vars

\* C29 (as stated): parse_location(parse_location(s)) = parse_location(s)
\* for every text s, for both functions.
C29_Idempotent ==
    Len(loc_parsed) = 2 => loc_parsed[2] = loc_parsed[1]

\* C39: a detail task that waits in its retry backoff holds no open page
\* and no open context.
C39_NothingOpenInBackoff ==
    \A t \in Jobs :
        task[t].pc = "backoff" =>
            /\ task[t].page # "open"
            /\ task[t].context # "open"

\* C37: the common parse_location, which the fallback of the parser
\* calls, and WorkdayParser.parse_location return the same result for
\* every raw location.
C37_ParsersAgree ==
    loc_parsed # <<>> =>
        /\ loc_parsed[1] = parse_location(loc_raw)
        /\ loc_parsed[1] = WorkdayParseLocation(loc_raw)

\* the call of scraper() for board i is over
Exited(i) == i < current \/ (i = current /\ board_pc = "idle")

=============================================================================
